---- MODULE Spec2Model ----
(***************************************************************************)
(* A model of the snmp-ai query pipeline: the language-model retry loop,   *)
(* the SNMP executor with its name registry, the TTL cache and the /query  *)
(* handler that chains them.                                               *)
(*                                                                         *)
(* Strings.  An OID or a symbolic name is a sequence of tokens in which    *)
(* every "." of the Python string is a token of its own and no other token *)
(* holds a dot, so that startswith, lstrip('.'), split('.') and slicing    *)
(* act on tokens exactly as they act on characters.  Opaque text (values,  *)
(* messages, summaries) is a TLA+ string.                                  *)
(***************************************************************************)
EXTENDS Integers, Sequences, FiniteSets, TLC

VARIABLES
    rs,     \* the frame of one _call_openai_with_retry call
    ex,     \* the frame of one SNMPService.execute_query call
    cache,  \* app.utils.cache._cache: key -> (value, timestamp, ttl)
    last_cleanup,   \* app.utils.cache._last_cleanup
    now,    \* time.time(), in whole seconds
    cache_enabled,  \* config.cache_enabled
    cobs,   \* what the cache operations so far returned and were given
    req,    \* the /query requests in flight, one per handler slot
    plog,   \* what the /query requests so far returned and stored
    mib     \* the MIBService object, its mib_dir and what its calls returned

vars ==
    <<rs, ex, cache, last_cleanup, now, cache_enabled, cobs, req, plog, mib>>

\* None where a token string is expected.  The code only ever tests such a
\* result with `if x:` or `x or y`, which take None and "" alike.
None == <<>>

(***************************************************************************)
(* Bounds of the model.                                                    *)
(***************************************************************************)
\* the entries of operation.oids, and the clock steps and the set_cache
\* calls of the cache on its own
MaxOids == 3
MaxTicks == 2
MaxSets == 2

(***************************************************************************)
(* String helpers.                                                         *)
(***************************************************************************)
Dot == "."

RECURSIVE Dotted(_)
\* "1.3.6" from <<"1","3","6">>
Dotted(parts) ==
    IF Len(parts) = 0 THEN <<>>
    ELSE IF Len(parts) = 1 THEN <<parts[1]>>
    ELSE <<parts[1], Dot>> \o Dotted(Tail(parts))

RECURSIVE Join(_)
\* the Python string a token sequence stands for
Join(toks) == IF toks = <<>> THEN "" ELSE Head(toks) \o Join(Tail(toks))

startswith(s, p) == Len(p) <= Len(s) /\ SubSeq(s, 1, Len(p)) = p

RECURSIVE lstrip_dot(_)
lstrip_dot(s) == IF s # <<>> /\ Head(s) = Dot THEN lstrip_dot(Tail(s)) ELSE s

\* s[n:] of Python, n counted in tokens
SliceFrom(s, n) == SubSeq(s, n + 1, Len(s))

\* index of the first "." of s, 0 when there is none
FirstDot(s) ==
    IF \E i \in 1..Len(s) : s[i] = Dot
    THEN CHOOSE i \in 1..Len(s) : s[i] = Dot /\ \A j \in 1..(i - 1) : s[j] # Dot
    ELSE 0

\* s.split(".")[0]
SplitDotFirst(s) == IF FirstDot(s) = 0 THEN s ELSE SubSeq(s, 1, FirstDot(s) - 1)

\* the index of the last token of s that is tok; 0 when there is none
LastIndex(s, tok) ==
    LET at == {i \in 1..Len(s) : s[i] = tok}
    IN IF at = {} THEN 0 ELSE CHOOSE i \in at : \A j \in at : j <= i

(***************************************************************************)
(* Name registry (MIBService).  A dict is a sequence of <<key, value>>     *)
(* pairs in insertion order, which is the order Python iterates it in.     *)
(***************************************************************************)
SysName(leaf) == <<"SNMPv2-MIB", "::", leaf, Dot, "0">>
IfName(leaf) == <<"IF-MIB", "::", leaf>>
SysOid(n) == Dotted(<<"1", "3", "6", "1", "2", "1", "1", n, "0">>)
IfOid(n) == Dotted(<<"1", "3", "6", "1", "2", "1", "2", "2", "1", n>>)

\* self.name_oid_cache after _init_basic_mibs
name_oid_cache ==
    << <<SysName("sysDescr"), SysOid("1")>>,
       <<SysName("sysObjectID"), SysOid("2")>>,
       <<SysName("sysUpTime"), SysOid("3")>>,
       <<SysName("sysContact"), SysOid("4")>>,
       <<SysName("sysName"), SysOid("5")>>,
       <<SysName("sysLocation"), SysOid("6")>>,
       <<SysName("sysServices"), SysOid("7")>>,
       <<<<"IF-MIB", "::", "ifNumber", Dot, "0">>,
         Dotted(<<"1", "3", "6", "1", "2", "1", "2", "1", "0">>)>>,
       <<IfName("ifIndex"), IfOid("1")>>,
       <<IfName("ifDescr"), IfOid("2")>>,
       <<IfName("ifType"), IfOid("3")>>,
       <<IfName("ifMtu"), IfOid("4")>>,
       <<IfName("ifSpeed"), IfOid("5")>>,
       <<IfName("ifPhysAddress"), IfOid("6")>>,
       <<IfName("ifAdminStatus"), IfOid("7")>>,
       <<IfName("ifOperStatus"), IfOid("8")>>,
       <<IfName("ifInOctets"), IfOid("10")>>,
       <<IfName("ifOutOctets"), IfOid("16")>> >>

\* d[key] = value on a dict kept as ordered pairs: an existing key keeps its
\* place, a new key goes to the end
DictPut(d, key, value) ==
    IF \E i \in 1..Len(d) : d[i][1] = key
    THEN [i \in 1..Len(d) |-> IF d[i][1] = key THEN <<key, value>> ELSE d[i]]
    ELSE Append(d, <<key, value>>)

DictHas(d, key) == \E i \in 1..Len(d) : d[i][1] = key
DictGet(d, key) == d[CHOOSE i \in 1..Len(d) : d[i][1] = key][2]

RECURSIVE BuildReverse(_, _, _)
BuildReverse(d, i, acc) ==
    IF i > Len(d) THEN acc
    ELSE BuildReverse(d, i + 1, DictPut(acc, d[i][2], d[i][1]))

\* self.oid_name_cache: the reverse mapping built by _init_basic_mibs
oid_name_cache == BuildReverse(name_oid_cache, 1, <<>>)

\* resolve_oid taking the text before the last "." of the name for its base
resolve_oid_LastDot(name) ==
    IF DictHas(mib.name_oid_cache, name)
    THEN DictGet(mib.name_oid_cache, name)
    ELSE IF LastIndex(name, Dot) > 1
              /\ DictHas(mib.name_oid_cache, SubSeq(name, 1, LastIndex(name, Dot) - 1))
         THEN DictGet(mib.name_oid_cache, SubSeq(name, 1, LastIndex(name, Dot) - 1))
                  \o <<Dot>> \o SliceFrom(name, LastIndex(name, Dot))
         ELSE None

\* MIBService.resolve_oid
resolve_oid(name) ==
    IF DictHas(mib.name_oid_cache, name)
    THEN DictGet(mib.name_oid_cache, name)
    ELSE IF FirstDot(name) > 1
              /\ DictHas(mib.name_oid_cache, SubSeq(name, 1, FirstDot(name) - 1))
         THEN DictGet(mib.name_oid_cache, SubSeq(name, 1, FirstDot(name) - 1))
                  \o <<Dot>> \o SliceFrom(name, FirstDot(name))
         ELSE None

\* what is left of the numeral b after its leading characters a, <<>> when b
\* does not begin with a (the numerals of the model)
CharRest(a, b) ==
    IF a = b THEN <<"">>
    ELSE IF a = "1" /\ b = "10" THEN <<"0">>
    ELSE IF a = "1" /\ b = "16" THEN <<"6">>
    ELSE IF a = "1" /\ b = "100" THEN <<"00">>
    ELSE IF a = "10" /\ b = "100" THEN <<"0">>
    ELSE <<>>

\* str.startswith on the characters: the tokens of p but the last are those
\* of s, and the last begins the token of s at its place
startswith_chars(s, p) ==
    /\ p # <<>>
    /\ Len(p) <= Len(s)
    /\ SubSeq(s, 1, Len(p) - 1) = SubSeq(p, 1, Len(p) - 1)
    /\ CharRest(p[Len(p)], s[Len(p)]) # <<>>

\* the prefix test without the "." appended to the known OID: the first
\* entry whose OID starts oid as a string of characters
FirstPrefixEntry_NoDot(oid) ==
    LET hits == {i \in 1..Len(mib.oid_name_cache) :
                    startswith_chars(oid, mib.oid_name_cache[i][1])}
    IN IF hits = {} THEN 0 ELSE CHOOSE i \in hits : \A j \in hits : i <= j

\* the first entry of self.oid_name_cache, in iteration order, whose OID
\* followed by "." starts oid; 0 when there is none
FirstPrefixEntry(oid) ==
    LET hits == {i \in 1..Len(mib.oid_name_cache) :
                    startswith(oid, mib.oid_name_cache[i][1] \o <<Dot>>)}
    IN IF hits = {} THEN 0 ELSE CHOOSE i \in hits : \A j \in hits : i <= j

\* translate_oid giving the name without its index on an exact hit too
translate_oid_BaseOnly(oid) ==
    IF DictHas(mib.oid_name_cache, oid)
    THEN SplitDotFirst(DictGet(mib.oid_name_cache, oid))
    ELSE IF FirstPrefixEntry(oid) # 0
         THEN LET e == mib.oid_name_cache[FirstPrefixEntry(oid)]
              IN SplitDotFirst(e[2]) \o SliceFrom(oid, Len(e[1]))
         ELSE None

\* translate_oid putting the suffix after the whole registered name
translate_oid_KeepIndex(oid) ==
    IF DictHas(mib.oid_name_cache, oid) THEN DictGet(mib.oid_name_cache, oid)
    ELSE IF FirstPrefixEntry(oid) # 0
         THEN LET e == mib.oid_name_cache[FirstPrefixEntry(oid)]
              IN e[2] \o SliceFrom(oid, Len(e[1]))
         ELSE None

\* MIBService.translate_oid
translate_oid(oid) ==
    IF DictHas(mib.oid_name_cache, oid) THEN DictGet(mib.oid_name_cache, oid)
    ELSE IF FirstPrefixEntry(oid) # 0
         THEN LET e == mib.oid_name_cache[FirstPrefixEntry(oid)]
              IN SplitDotFirst(e[2]) \o SliceFrom(oid, Len(e[1]))
         ELSE None

\* os.path.basename, on a path whose "/" are tokens of their own
basename(path) == SubSeq(path, LastIndex(path, "/") + 1, Len(path))

\* os.path.splitext(file_name)[0]: the name up to its last ".", unless only
\* dots precede that "."
splitext_root(file_name) ==
    LET k == LastIndex(file_name, Dot)
    IN IF \E i \in 1..(k - 1) : file_name[i] # Dot
       THEN SubSeq(file_name, 1, k - 1)
       ELSE file_name

\* no call of the service made yet.  A call is recorded with its name, its
\* argument (a name, an OID or a path in arg, what the path holds in on_disk,
\* a list of MIB names in names, operation.oids in direct), what it
\* returned (a string or None in ret, a list in oids, a bool in ok) and,
\* for get_mib_oids, whether get_cache gave it a list (hit).
NoCall ==
    [op |-> "", arg |-> <<>>, on_disk |-> "", names |-> <<>>, direct |-> <<>>,
     ret |-> <<>>, oids |-> <<>>, ok |-> FALSE, hit |-> FALSE]

\* MIBService.__init__ with _init_basic_mibs; mib_dir holds the names of the
\* files add_mib_file wrote, last the latest call with what it returned
MIBService ==
    [name_oid_cache |-> name_oid_cache,
     oid_name_cache |-> oid_name_cache,
     loaded_mibs |-> {<<"SNMPv2-MIB">>, <<"IF-MIB">>},
     mib_dir |-> {},
     last |-> NoCall]

\* what os.path.exists, os.path.isfile and the two open() calls of
\* add_mib_file find at a path: a regular file that is copied, nothing, a
\* directory, a file open(file_path, 'rb') raises on, and a file whose
\* target open(target_path, 'wb') raises on
OnDisk == {"file", "missing", "directory", "unreadable", "unwritable"}

\* add_mib_file registering an object of the file it copied under the
\* file's label
add_mib_file_Registering(m, file_path, on_disk) ==
    LET file_name == basename(file_path)
        mib_name == splitext_root(file_name)
        name == mib_name \o <<"::", "cpmCPUTotal5sec">>
        oid == Dotted(<<"1", "3", "6", "1", "4", "1", "9">>)
    IN IF on_disk = "file"
       THEN [mib |-> [m EXCEPT !.mib_dir = @ \cup {file_name},
                               !.loaded_mibs = @ \cup {mib_name},
                               !.name_oid_cache = DictPut(@, name, oid),
                               !.oid_name_cache = DictPut(@, oid, name)],
             ret |-> TRUE]
       ELSE [mib |-> m, ret |-> FALSE]

\* MIBService.add_mib_file on the object m: the object afterwards and the
\* value returned.  Both open() calls come before loaded_mibs.add, so the
\* except clause returns False with the object as it was.
add_mib_file(m, file_path, on_disk) ==
    LET file_name == basename(file_path)
        mib_name == splitext_root(file_name)
    IN CASE on_disk = "file" ->
               [mib |-> [m EXCEPT !.mib_dir = @ \cup {file_name},
                                  !.loaded_mibs = @ \cup {mib_name}],
                ret |-> TRUE]
         [] on_disk \in {"missing", "directory"} -> [mib |-> m, ret |-> FALSE]
         [] on_disk \in {"unreadable", "unwritable"} -> [mib |-> m, ret |-> FALSE]

(***************************************************************************)
(* Values.  A value the SNMP client returns is a record tagged with its    *)
(* Python type; bytes are sequences of numbers 0..255.                     *)
(***************************************************************************)
VBytes(b) == [type |-> "bytes", bytes |-> b]
VStr(t) == [type |-> "str", str |-> t]
VInt(n) == [type |-> "int", int |-> n]
VBool(b) == [type |-> "bool", bool |-> b]
VFloat(repr) == [type |-> "float", float |-> repr]
\* any other object, given by what str() makes of it
VObj(repr) == [type |-> "object", repr |-> repr]

\* the printable ASCII characters, from code 32 (the double quote, the
\* backslash and the backquote written as Chr writes the characters outside the table)
Ascii ==
    <<" ", "!", "<U+34>", "#", "$", "%", "&", "'", "(", ")", "*", "+",
       ",", "-", ".", "/", "0", "1", "2", "3", "4", "5", "6", "7",
       "8", "9", ":", ";", "<", "=", ">", "?", "@", "A", "B", "C",
       "D", "E", "F", "G", "H", "I", "J", "K", "L", "M", "N", "O",
       "P", "Q", "R", "S", "T", "U", "V", "W", "X", "Y", "Z", "[",
       "<U+92>", "]", "^", "_", "<U+96>", "a", "b", "c", "d", "e", "f", "g",
       "h", "i", "j", "k", "l", "m", "n", "o", "p", "q", "r", "s",
       "t", "u", "v", "w", "x", "y", "z", "{", "|", "}", "~">>

Chr(cp) == IF cp \in 32..126 THEN Ascii[cp - 31] ELSE "<U+" \o ToString(cp) \o ">"

HexDigits == <<"0", "1", "2", "3", "4", "5", "6", "7", "8", "9", "a", "b", "c", "d", "e", "f">>

RECURSIVE hex(_)
\* bytes.hex()
hex(b) ==
    IF b = <<>> THEN ""
    ELSE HexDigits[(Head(b) \div 16) + 1] \o HexDigits[(Head(b) % 16) + 1] \o hex(Tail(b))

IsCont(b, i) == i <= Len(b) /\ b[i] \in 128..191

\* the length of the well-formed UTF-8 sequence that starts at b[i], 0 when
\* none does
Utf8Len(b, i) ==
    LET c == b[i]
        second(lo, hi) == i + 1 <= Len(b) /\ b[i + 1] \in lo..hi
    IN  IF c <= 127 THEN 1
        ELSE IF c \in 194..223 /\ IsCont(b, i + 1) THEN 2
        ELSE IF c = 224 /\ second(160, 191) /\ IsCont(b, i + 2) THEN 3
        ELSE IF c \in (225..236) \cup {238, 239} /\ IsCont(b, i + 1) /\ IsCont(b, i + 2) THEN 3
        ELSE IF c = 237 /\ second(128, 159) /\ IsCont(b, i + 2) THEN 3
        ELSE IF c = 240 /\ second(144, 191) /\ IsCont(b, i + 2) /\ IsCont(b, i + 3) THEN 4
        ELSE IF c \in 241..243 /\ IsCont(b, i + 1) /\ IsCont(b, i + 2) /\ IsCont(b, i + 3) THEN 4
        ELSE IF c = 244 /\ second(128, 143) /\ IsCont(b, i + 2) /\ IsCont(b, i + 3) THEN 4
        ELSE 0

CodePoint(b, i, n) ==
    IF n = 1 THEN b[i]
    ELSE IF n = 2 THEN (b[i] % 32) * 64 + (b[i + 1] % 64)
    ELSE IF n = 3 THEN (b[i] % 16) * 4096 + (b[i + 1] % 64) * 64 + (b[i + 2] % 64)
    ELSE (b[i] % 8) * 262144 + (b[i + 1] % 64) * 4096 + (b[i + 2] % 64) * 64 + (b[i + 3] % 64)

RECURSIVE Utf8Valid(_, _)
Utf8Valid(b, i) ==
    IF i > Len(b) THEN TRUE
    ELSE Utf8Len(b, i) # 0 /\ Utf8Valid(b, i + Utf8Len(b, i))

RECURSIVE Utf8Text(_, _)
Utf8Text(b, i) ==
    IF i > Len(b) THEN ""
    ELSE Chr(CodePoint(b, i, Utf8Len(b, i))) \o Utf8Text(b, i + Utf8Len(b, i))

\* _format_value without the attempt to decode: bytes always become their
\* hexadecimal rendering
format_value_AlwaysHex(value) ==
    IF value.type = "bytes" THEN VStr(hex(value.bytes))
    ELSE IF value.type \in {"int", "str", "bool", "float"} THEN value
    ELSE VStr(value.repr)

\* SNMPService._format_value
format_value(value) ==
    IF value.type = "bytes"
    THEN IF Utf8Valid(value.bytes, 1) THEN VStr(Utf8Text(value.bytes, 1))
         ELSE VStr(hex(value.bytes))
    ELSE IF value.type \in {"int", "str", "bool", "float"} THEN value
    ELSE VStr(value.repr)

(***************************************************************************)
(* The TTL cache (app/utils/cache.py).  The store is a function from the   *)
(* keys present to entries; an optional result is <<>> (None) or <<v>>.    *)
(***************************************************************************)
cache_ttl == 3600
CLEANUP_INTERVAL == 60

Absent == <<>>
Some(v) == <<v>>

Entry(value, timestamp, ttl) == [value |-> value, timestamp |-> timestamp, ttl |-> ttl]

Without(c, keys) == [k \in (DOMAIN c) \ keys |-> c[k]]
With(c, key, e) == [k \in (DOMAIN c) \cup {key} |-> IF k = key THEN e ELSE c[k]]

\* Expired with the entry already gone at the very second its ttl runs out
Expired_AtLimit(e, t) == t - e.timestamp >= e.ttl

\* current_time - timestamp > ttl
Expired(e, t) == t - e.timestamp > e.ttl

\* _maybe_cleanup_cache: the store and _last_cleanup it leaves
maybe_cleanup_cache(c, lc, t) ==
    IF t - lc > CLEANUP_INTERVAL
    THEN [cache |-> Without(c, {k \in DOMAIN c : Expired(c[k], t)}), last_cleanup |-> t]
    ELSE [cache |-> c, last_cleanup |-> lc]

\* get_cache without the test of config.cache_enabled
get_cache_IgnoreFlag(c, lc, t, enabled, key) ==
    IF key \notin DOMAIN c THEN [ret |-> Absent, cache |-> c, last_cleanup |-> lc]
    ELSE IF Expired(c[key], t)
         THEN [ret |-> Absent, cache |-> Without(c, {key}), last_cleanup |-> lc]
    ELSE [ret |-> Some(c[key].value)] @@ maybe_cleanup_cache(c, lc, t)

\* get_cache: what it returns, and the store and _last_cleanup it leaves
get_cache(c, lc, t, enabled, key) ==
    IF ~enabled THEN [ret |-> Absent, cache |-> c, last_cleanup |-> lc]
    ELSE IF key \notin DOMAIN c THEN [ret |-> Absent, cache |-> c, last_cleanup |-> lc]
    ELSE IF Expired(c[key], t)
         THEN [ret |-> Absent, cache |-> Without(c, {key}), last_cleanup |-> lc]
    ELSE [ret |-> Some(c[key].value)] @@ maybe_cleanup_cache(c, lc, t)

\* `ttl or config.cache_ttl`, ttl being <<>> (None) or <<n>>
TtlOrDefault(ttl) == IF ttl = <<>> \/ ttl[1] = 0 THEN cache_ttl ELSE ttl[1]

\* set_cache: the store it leaves
set_cache(c, t, enabled, key, value, ttl) ==
    IF ~enabled THEN c
    ELSE With(c, key, Entry(value, t, TtlOrDefault(ttl)))

\* clear_cache emptying the store whatever the prefix
clear_cache_All(c, key_prefix) == <<>>

\* clear_cache: the store it leaves; key_prefix is <<>> for None
clear_cache(c, key_prefix) ==
    IF key_prefix # <<>>
    THEN Without(c, {k \in DOMAIN c : startswith(k, key_prefix)})
    ELSE <<>>

(***************************************************************************)
(* The language-model retry loop (OpenAIService._call_openai_with_retry).  *)
(* A frame holds the loop's local retry_count and, for the properties, the *)
(* create() calls made, their outcomes and the delays slept, in            *)
(* milliseconds.                                                           *)
(***************************************************************************)
max_retries == 3
retry_base_delay == 1

\* What one client.chat.completions.create call does: it returns a
\* completion with some content, or raises.  status_code 0 stands for None.
Completion(content) == [kind |-> "ok", status_code |-> 0, content |-> content]
Raises(kind, status_code) == [kind |-> kind, status_code |-> status_code, content |-> <<>>]

RetryFrame ==
    [status |-> "running", retry_count |-> 0, attempts |-> 0,
     outcomes |-> <<>>, delays |-> <<>>, result |-> Absent,
     caller |-> "", args |-> <<>>, value |-> <<>>]

\* GiveUpOrSleep with the budget one short: `retry_count >= max_retries`
GiveUpOrSleep_OneShort(s, delay_ms) ==
    IF s.retry_count >= max_retries
    THEN [s EXCEPT !.status = "returned", !.result = Absent]
    ELSE [s EXCEPT !.delays = Append(@, delay_ms)]

\* a retryable failure, retry_count already incremented: give up, or sleep
\* delay_ms and go round the loop again
GiveUpOrSleep(s, delay_ms) ==
    IF s.retry_count > max_retries
    THEN [s EXCEPT !.status = "returned", !.result = Absent]
    ELSE [s EXCEPT !.delays = Append(@, delay_ms)]

\* HandleRaise with a budget of its own for connection errors, which leaves
\* the shared retry_count alone
HandleRaise_OwnBudget(s, out, jitter_ms) ==
    LET counted == [s EXCEPT !.retry_count = @ + 1]
        n == counted.retry_count
    IN  IF out.kind = "RateLimitError"
        THEN GiveUpOrSleep(counted, retry_base_delay * (2 ^ (n - 1)) * 1000 + jitter_ms)
        ELSE IF out.kind = "APIConnectionError"
        THEN [s EXCEPT !.delays = Append(@, retry_base_delay * n * 1000)]
        ELSE IF out.kind = "APIError"
        THEN IF out.status_code # 0 /\ 500 <= out.status_code /\ out.status_code < 600
             THEN GiveUpOrSleep(counted, retry_base_delay * n * 1000)
             ELSE [s EXCEPT !.status = "returned", !.result = Absent]
        ELSE [s EXCEPT !.status = "returned", !.result = Absent]

\* HandleRaise retrying every APIError, whatever its status code
HandleRaise_RetryAnyStatus(s, out, jitter_ms) ==
    LET counted == [s EXCEPT !.retry_count = @ + 1]
        n == counted.retry_count
    IN  IF out.kind = "RateLimitError"
        THEN GiveUpOrSleep(counted, retry_base_delay * (2 ^ (n - 1)) * 1000 + jitter_ms)
        ELSE IF out.kind \in {"APIConnectionError", "APIError"}
        THEN GiveUpOrSleep(counted, retry_base_delay * n * 1000)
        ELSE [s EXCEPT !.status = "returned", !.result = Absent]

\* HandleRaise with the rate-limit delay growing by retry_base_delay a retry
\* as the other two do
HandleRaise_Linear(s, out, jitter_ms) ==
    LET counted == [s EXCEPT !.retry_count = @ + 1]
        n == counted.retry_count
    IN  IF out.kind = "RateLimitError"
        THEN GiveUpOrSleep(counted, retry_base_delay * n * 1000 + jitter_ms)
        ELSE IF out.kind = "APIConnectionError"
        THEN GiveUpOrSleep(counted, retry_base_delay * n * 1000)
        ELSE IF out.kind = "APIError"
        THEN IF out.status_code # 0 /\ 500 <= out.status_code /\ out.status_code < 600
             THEN GiveUpOrSleep(counted, retry_base_delay * n * 1000)
             ELSE [s EXCEPT !.status = "returned", !.result = Absent]
        ELSE [s EXCEPT !.status = "returned", !.result = Absent]

\* the except clauses, in the order Python tries them
HandleRaise(s, out, jitter_ms) ==
    LET counted == [s EXCEPT !.retry_count = @ + 1]
        n == counted.retry_count
    IN  IF out.kind = "RateLimitError"
        THEN GiveUpOrSleep(counted, retry_base_delay * (2 ^ (n - 1)) * 1000 + jitter_ms)
        ELSE IF out.kind = "APIConnectionError"
        THEN GiveUpOrSleep(counted, retry_base_delay * n * 1000)
        ELSE IF out.kind = "APIError"
        THEN IF out.status_code # 0 /\ 500 <= out.status_code /\ out.status_code < 600
             THEN GiveUpOrSleep(counted, retry_base_delay * n * 1000)
             ELSE [s EXCEPT !.status = "returned", !.result = Absent]
        ELSE [s EXCEPT !.status = "returned", !.result = Absent]

\* one pass of the while loop of _call_openai_with_retry: the create() call
\* with outcome out, and the handler that follows it
call_openai_with_retry(s, out, jitter_ms) ==
    IF ~(s.retry_count <= max_retries)
    THEN [s EXCEPT !.status = "returned", !.result = Absent]
    ELSE LET called == [s EXCEPT !.attempts = @ + 1, !.outcomes = Append(@, out)]
         IN IF out.kind = "ok"
            THEN [called EXCEPT !.status = "returned", !.result = Some(out)]
            ELSE HandleRaise(called, out, jitter_ms)

(***************************************************************************)
(* JSON and the query model (app/models/query.py).  The content of a       *)
(* completion is <<>> (None) or <<[text, json]>>: its text, and what       *)
(* json.loads makes of the text, <<>> when it raises JSONDecodeError.      *)
(***************************************************************************)
JStr(x) == [j |-> "str", s |-> x]
JInt(n) == [j |-> "int", n |-> n]
JBool(b) == [j |-> "bool", b |-> b]
JNull == [j |-> "null"]
JList(items) == [j |-> "list", items |-> items]
JObj(fields) == [j |-> "obj", o |-> fields]

Content(text, json) == Some([text |-> text, json |-> json])

\* dict.get(key, default)
Get(o, key, default) == IF key \in DOMAIN o THEN o[key] ELSE default

\* the numerals pydantic's lax mode turns into the int they spell
NumeralValue == [n \in {"161"} |-> 161]

\* pydantic field validators: <<>> when the value is rejected, <<v>> otherwise
StrField(v) == IF v.j = "str" THEN Some(v.s) ELSE Absent
IntField(v) ==
    IF v.j = "int" THEN Some(v.n)
    ELSE IF v.j = "bool" THEN Some(IF v.b THEN 1 ELSE 0)
    ELSE IF v.j = "str" /\ v.s \in DOMAIN NumeralValue THEN Some(NumeralValue[v.s])
    ELSE Absent
\* Optional[...]: the validated value is itself <<>> (None) or <<x>>
OptionalField(v, Field(_)) ==
    IF v.j = "null" THEN Some(Absent)
    ELSE IF Field(v) = Absent THEN Absent ELSE Some(Field(v))
StrListField(v) ==
    IF v.j = "list" /\ \A i \in 1..Len(v.items) : v.items[i].j = "str"
    THEN Some([i \in 1..Len(v.items) |-> v.items[i].s])
    ELSE Absent

\* SNMPTarget with host declared Field("") instead of Field(...)
ValidateTarget_HostOptional(v) ==
    IF v.j # "obj" THEN Absent
    ELSE LET host == StrField(Get(v.o, "host", JStr("")))
             port == IntField(Get(v.o, "port", JInt(161)))
             timeout == IntField(Get(v.o, "timeout", JInt(5)))
             retries == IntField(Get(v.o, "retries", JInt(3)))
         IN IF host = Absent \/ port = Absent \/ timeout = Absent \/ retries = Absent
            THEN Absent
            ELSE Some([host |-> host[1], port |-> port[1],
                       timeout |-> timeout[1], retries |-> retries[1]])

\* SNMPTarget
ValidateTarget(v) ==
    IF v.j # "obj" \/ "host" \notin DOMAIN v.o THEN Absent
    ELSE LET host == StrField(v.o["host"])
             port == IntField(Get(v.o, "port", JInt(161)))
             timeout == IntField(Get(v.o, "timeout", JInt(5)))
             retries == IntField(Get(v.o, "retries", JInt(3)))
         IN IF host = Absent \/ port = Absent \/ timeout = Absent \/ retries = Absent
            THEN Absent
            ELSE Some([host |-> host[1], port |-> port[1],
                       timeout |-> timeout[1], retries |-> retries[1]])

\* SNMPCredentials (the SNMPv3 fields, which nothing reads, are left out)
ValidateCredentials(v) ==
    IF v.j # "obj" THEN Absent
    ELSE LET version == StrField(Get(v.o, "version", JStr("2c")))
             community == OptionalField(Get(v.o, "community", JNull), StrField)
         IN IF version = Absent \/ community = Absent THEN Absent
            ELSE Some([version |-> version[1], community |-> community[1]])

\* SNMPOperation
ValidateOperation(v) ==
    IF v.j # "obj" \/ "command" \notin DOMAIN v.o THEN Absent
    ELSE LET command == StrField(v.o["command"])
             oids == StrListField(Get(v.o, "oids", JList(<<>>)))
             mib_names == StrListField(Get(v.o, "mib_names", JList(<<>>)))
             max_repetitions == OptionalField(Get(v.o, "max_repetitions", JNull), IntField)
             non_repeaters == OptionalField(Get(v.o, "non_repeaters", JNull), IntField)
         IN IF command = Absent \/ oids = Absent \/ mib_names = Absent
                   \/ max_repetitions = Absent \/ non_repeaters = Absent
            THEN Absent
            ELSE Some([command |-> command[1], oids |-> oids[1],
                       mib_names |-> mib_names[1],
                       max_repetitions |-> max_repetitions[1],
                       non_repeaters |-> non_repeaters[1]])

\* SNMPQuery.model_validate: <<>> when validation raises, <<query>> otherwise
model_validate(v) ==
    IF v.j # "obj" \/ "target" \notin DOMAIN v.o \/ "operation" \notin DOMAIN v.o
    THEN Absent
    ELSE LET target == ValidateTarget(v.o["target"])
             credentials ==
                 IF "credentials" \in DOMAIN v.o THEN ValidateCredentials(v.o["credentials"])
                 ELSE Some([version |-> "2c", community |-> Absent])
             operation == ValidateOperation(v.o["operation"])
             raw_query == OptionalField(Get(v.o, "raw_query", JNull), StrField)
         IN IF target = Absent \/ credentials = Absent \/ operation = Absent
                   \/ raw_query = Absent
            THEN Absent
            ELSE Some([target |-> target[1], credentials |-> credentials[1],
                       operation |-> operation[1], raw_query |-> raw_query[1]])

\* adapted_data with ".1.3.6.1.2.1.1.1.0" as the default of "oid"
AdaptedData_DottedDefault(o) ==
    JObj([k \in {"target", "credentials", "operation"} |->
        IF k = "target"
        THEN JObj([f \in {"host", "port", "timeout", "retries"} |->
                 IF f = "host" THEN Get(o, "target_ip", JStr(""))
                 ELSE IF f = "port" THEN Get(o, "port", JInt(161))
                 ELSE IF f = "timeout" THEN Get(o, "timeout", JInt(5))
                 ELSE Get(o, "retries", JInt(3))])
        ELSE IF k = "credentials"
        THEN JObj([f \in {"version", "community"} |->
                 IF f = "version" THEN Get(o, "snmp_version", JStr("2c"))
                 ELSE Get(o, "community_string", JStr("public"))])
        ELSE JObj([f \in {"command", "oids"} |->
                 IF f = "command" THEN Get(o, "operation", JStr("GET"))
                 ELSE JList(<<Get(o, "oid", JStr(<<Dot>> \o SysOid("1")))>>)])])

\* the adapted_data dict process_query builds from the other response shape
AdaptedData(o) ==
    JObj([k \in {"target", "credentials", "operation"} |->
        IF k = "target"
        THEN JObj([f \in {"host", "port", "timeout", "retries"} |->
                 IF f = "host" THEN Get(o, "target_ip", JStr(""))
                 ELSE IF f = "port" THEN Get(o, "port", JInt(161))
                 ELSE IF f = "timeout" THEN Get(o, "timeout", JInt(5))
                 ELSE Get(o, "retries", JInt(3))])
        ELSE IF k = "credentials"
        THEN JObj([f \in {"version", "community"} |->
                 IF f = "version" THEN Get(o, "snmp_version", JStr("2c"))
                 ELSE Get(o, "community_string", JStr("public"))])
        ELSE JObj([f \in {"command", "oids"} |->
                 IF f = "command" THEN Get(o, "operation", JStr("GET"))
                 ELSE JList(<<Get(o, "oid", JStr(SysOid("1")))>>)])])

\* What a block of code comes to: the value it returns, or the class of the
\* exception that leaves it.
Returns(v) == [raises |-> "", ret |-> <<v>>]
Throws(cls) == [raises |-> cls, ret |-> <<>>]

\* a handler that lets everything but json.JSONDecodeError through
ExceptException_DecodeErrorOnly(outcome, fallback) ==
    IF outcome.raises = "JSONDecodeError" THEN Returns(fallback) ELSE outcome

\* try: the block / except Exception: return fallback
ExceptException(outcome, fallback) ==
    IF outcome.raises # "" THEN Returns(fallback) ELSE outcome

\* the body of process_query after the retry loop has returned response
\* (<<>> or <<completion>>): it returns <<>> for None or <<query>>, or an
\* exception leaves it (json.loads(None), json.loads of text that is not
\* JSON, `.get` on JSON that is not an object, model_validate)
process_query_try(response) ==
    IF response = Absent THEN Returns(Absent)
    ELSE IF response[1].content = Absent THEN Throws("TypeError")
    ELSE IF response[1].content[1].json = Absent THEN Throws("JSONDecodeError")
    ELSE LET raw_data == response[1].content[1].json[1]
             snmp_query ==
                 IF "target" \in DOMAIN raw_data.o /\ "operation" \in DOMAIN raw_data.o
                 THEN model_validate(raw_data)
                 ELSE model_validate(AdaptedData(raw_data.o))
         IN IF raw_data.j # "obj" THEN Throws("AttributeError")
            ELSE IF snmp_query = Absent THEN Throws("ValidationError")
            ELSE Returns(snmp_query)

\* OpenAIService.process_query after the retry loop: the body inside its two
\* try statements, each of which ends in `except Exception: return None`
openai_process_query(response) ==
    ExceptException(ExceptException(process_query_try(response), Absent), Absent)

(***************************************************************************)
(* The response model and the summarizer (OpenAIService.format_response).  *)
(***************************************************************************)
SNMPResponse(raw_data, summary, query, error) ==
    [raw_data |-> raw_data, summary |-> summary, query |-> query, error |-> error]

\* the body of format_response after the retry loop has returned response;
\* SNMPResponse(summary=None) raises a ValidationError
format_response_try(response, snmp_response, original_query) ==
    IF response = Absent
    THEN Returns(SNMPResponse(snmp_response, "Unable to generate summary due to API error.",
                              original_query, Absent))
    ELSE IF response[1].content = Absent THEN Throws("ValidationError")
    ELSE Returns(SNMPResponse(snmp_response, response[1].content[1].text,
                              original_query, Absent))

\* format_response reporting the failure of the model in the error field
format_response_FailureAsError(response, snmp_response, original_query) ==
    ExceptException(
        IF response = Absent
        THEN Returns(SNMPResponse(snmp_response,
                                  "Unable to generate summary due to API error.",
                                  original_query, Some("API error")))
        ELSE format_response_try(response, snmp_response, original_query),
        SNMPResponse(snmp_response,
                     "Unable to generate summary due to an unexpected error.",
                     original_query, Absent))

\* OpenAIService.format_response after the retry loop: the body inside its
\* try statement
format_response(response, snmp_response, original_query) ==
    ExceptException(format_response_try(response, snmp_response, original_query),
                    SNMPResponse(snmp_response,
                                 "Unable to generate summary due to an unexpected error.",
                                 original_query, Absent))

\* the frame of the caller at its end: it has returned outcome.ret[1], or
\* the exception has left it
Ended(t, outcome) ==
    IF outcome.raises # "" THEN [t EXCEPT !.status = "raised"]
    ELSE [t EXCEPT !.value = outcome.ret]

\* A call of the language model by process_query or format_response: one
\* pass of the retry loop and, once the loop has returned, the rest of the
\* caller, which runs on without a suspension point.
llm_call(s, out, jitter_ms) ==
    LET t == call_openai_with_retry(s, out, jitter_ms)
    IN  IF t.status # "returned" THEN t
        ELSE IF t.caller = "process_query"
        THEN Ended(t, openai_process_query(t.result))
        ELSE Ended(t, format_response(t.result, t.args.snmp_response,
                                      t.args.original_query))

\* `snmp_query.raw_query = query`, which the callers of process_query do
\* with the query it returned (api/main.py line 68, cli.py line 48)
Attached_Not(snmp_query, query) == snmp_query

Attached(snmp_query, query) == [snmp_query EXCEPT !.raw_query = Some(query)]

\* the frame of a call by process_query, and of one by format_response
TranslateFrame == [RetryFrame EXCEPT !.caller = "process_query"]
SummarizeFrame(snmp_response, original_query) ==
    [RetryFrame EXCEPT !.caller = "format_response",
                       !.args = [snmp_response |-> snmp_response,
                                 original_query |-> original_query]]

(***************************************************************************)
(* The SNMP executor (SNMPService).  A frame of execute_query holds the    *)
(* prepared OIDs, the index of the next one, the result dict (a function   *)
(* from the keys present, token strings, to values) and, for the           *)
(* properties, the protocol calls issued and what happened at each OID.    *)
(***************************************************************************)
default_community == "public"

\* an exception: its class and the message str(e) gives, as tokens
Exc(cls, msg) == [cls |-> cls, msg |-> msg]

\* puresnmp.exc: Timeout derives from SnmpError
IsSnmpError(cls) == cls \in {"SnmpError", "Timeout"}

\* str.lower() on the tokens of the messages
LowerTok(t) ==
    IF t = "No" THEN "no" ELSE IF t = "Such" THEN "such"
    ELSE IF t = "Object" THEN "object" ELSE IF t = "Instance" THEN "instance"
    ELSE t
lower(msg) == [i \in 1..Len(msg) |-> LowerTok(msg[i])]

\* `needle in hay`
Contains(hay, needle) ==
    \E i \in 0..(Len(hay) - Len(needle)) : SubSeq(hay, i + 1, i + Len(needle)) = needle

\* the decimal numerals the OIDs of the model are made of
Numerals == {"0", "1", "2", "3", "4", "5", "6", "7", "8", "9", "10", "16"}

\* whether ObjectIdentifier(oid) accepts the string: dotted decimal
IsNumericOid(oid) ==
    /\ Len(oid) % 2 = 1
    /\ \A i \in 1..Len(oid) : IF i % 2 = 1 THEN oid[i] \in Numerals ELSE oid[i] = Dot

ErrorKey == <<"error">>

\* `x or y` on token strings
Or(x, y) == IF x # <<>> THEN x ELSE y

\* get_mib_oids taking every name that begins with mib_name, "::" or not
get_mib_oids_NoSeparator(mib_name, c, lc, t, enabled) ==
    LET cache_key == <<"mib_", "oids_">> \o mib_name
        got == get_cache(c, lc, t, enabled, cache_key)
        hits == {i \in 1..Len(mib.name_oid_cache) :
                    startswith(mib.name_oid_cache[i][1], mib_name)}
        RECURSIVE Scan(_)
        Scan(i) ==
            IF i > Len(mib.name_oid_cache) THEN <<>>
            ELSE (IF i \in hits THEN <<mib.name_oid_cache[i][2]>> ELSE <<>>) \o Scan(i + 1)
        oids == Scan(1)
    IN  IF got.ret # Absent /\ got.ret[1] # <<>>
        THEN [oids |-> got.ret[1], cache |-> got.cache, last_cleanup |-> got.last_cleanup]
        ELSE [oids |-> oids,
              cache |-> IF oids # <<>>
                        THEN set_cache(got.cache, t, enabled, cache_key, oids, <<>>)
                        ELSE got.cache,
              last_cleanup |-> got.last_cleanup]

\* get_mib_oids keeping the lists of all the MIBs under one key
get_mib_oids_SharedKey(mib_name, c, lc, t, enabled) ==
    LET cache_key == <<"mib_", "oids_">>
        got == get_cache(c, lc, t, enabled, cache_key)
        hits == {i \in 1..Len(mib.name_oid_cache) :
                    startswith(mib.name_oid_cache[i][1], mib_name \o <<"::">>)}
        RECURSIVE Scan(_)
        Scan(i) ==
            IF i > Len(mib.name_oid_cache) THEN <<>>
            ELSE (IF i \in hits THEN <<mib.name_oid_cache[i][2]>> ELSE <<>>) \o Scan(i + 1)
        oids == Scan(1)
    IN  IF got.ret # Absent /\ got.ret[1] # <<>>
        THEN [oids |-> got.ret[1], cache |-> got.cache, last_cleanup |-> got.last_cleanup]
        ELSE [oids |-> oids,
              cache |-> IF oids # <<>>
                        THEN set_cache(got.cache, t, enabled, cache_key, oids, <<>>)
                        ELSE got.cache,
              last_cleanup |-> got.last_cleanup]

\* MIBService.get_mib_oids: the OIDs it returns, and the cache it leaves
get_mib_oids(mib_name, c, lc, t, enabled) ==
    LET cache_key == <<"mib_", "oids_">> \o mib_name
        got == get_cache(c, lc, t, enabled, cache_key)
        hits == {i \in 1..Len(mib.name_oid_cache) :
                    startswith(mib.name_oid_cache[i][1], mib_name \o <<"::">>)}
        \* the matching entries, in iteration order
        RECURSIVE Scan(_)
        Scan(i) ==
            IF i > Len(mib.name_oid_cache) THEN <<>>
            ELSE (IF i \in hits THEN <<mib.name_oid_cache[i][2]>> ELSE <<>>) \o Scan(i + 1)
        oids == Scan(1)
    IN  IF got.ret # Absent /\ got.ret[1] # <<>>
        THEN [oids |-> got.ret[1], cache |-> got.cache, last_cleanup |-> got.last_cleanup]
        ELSE [oids |-> oids,
              cache |-> IF oids # <<>>
                        THEN set_cache(got.cache, t, enabled, cache_key, oids, <<>>)
                        ELSE got.cache,
              last_cleanup |-> got.last_cleanup]

\* PreparedFrom handing a dotted entry on as it is, leading dot included
PreparedFrom_KeepDot(oid) ==
    IF startswith(oid, <<Dot>>) THEN <<oid>>
    ELSE IF resolve_oid(oid) # <<>> THEN <<lstrip_dot(resolve_oid(oid))>>
    ELSE IF \E i \in 1..Len(oid) : oid[i] = "::" THEN <<>>
    ELSE <<lstrip_dot(oid)>>

\* the first loop of _prepare_oids: what one entry of operation.oids adds
PreparedFrom(oid) ==
    IF startswith(oid, <<Dot>>) THEN <<lstrip_dot(oid)>>
    ELSE IF \E i \in 1..Len(oid) : oid[i] = "::"
         THEN IF resolve_oid(oid) # <<>> THEN <<lstrip_dot(resolve_oid(oid))>> ELSE <<>>
         ELSE IF resolve_oid(oid) # <<>> THEN <<lstrip_dot(resolve_oid(oid))>>
              ELSE <<lstrip_dot(oid)>>

RECURSIVE PrepareDirect(_)
PrepareDirect(entries) ==
    IF entries = <<>> THEN <<>>
    ELSE PreparedFrom(Head(entries)) \o PrepareDirect(Tail(entries))

RECURSIVE PrepareMibs(_, _, _, _, _, _)
\* the second loop of _prepare_oids, the cache threaded through it
PrepareMibs(mib_names, oids, c, lc, t, enabled) ==
    IF mib_names = <<>> THEN [oids |-> oids, cache |-> c, last_cleanup |-> lc]
    ELSE LET m == get_mib_oids(Head(mib_names), c, lc, t, enabled)
         IN PrepareMibs(Tail(mib_names),
                        oids \o [i \in 1..Len(m.oids) |-> lstrip_dot(m.oids[i])],
                        m.cache, m.last_cleanup, t, enabled)

\* SNMPService._prepare_oids: the OIDs, and the cache it leaves
prepare_oids(operation, c, lc, t, enabled) ==
    PrepareMibs(operation.mib_names, PrepareDirect(operation.oids), c, lc, t, enabled)

\* str.upper() on the command strings of the model
upper(command) ==
    IF command \in {"GET", "get", "Get", "gEt"} THEN "GET"
    ELSE IF command \in {"GETNEXT", "getnext", "GetNext"} THEN "GETNEXT"
    ELSE IF command \in {"WALK", "walk", "Walk"} THEN "WALK"
    ELSE IF command \in {"BULK", "bulk", "bUlK"} THEN "BULK"
    ELSE IF command \in {"SET", "set"} THEN "SET"
    ELSE IF command = "getbulk" THEN "GETBULK"
    ELSE command

\* `x or default` on an Optional[int], <<>> or <<n>>
IntOr(x, default) == IF x = <<>> \/ x[1] = 0 THEN default ELSE x[1]

IdleFrame ==
    [pc |-> "idle", query |-> <<>>, command |-> "", oids |-> <<>>, i |-> 1, result |-> <<>>,
     calls |-> <<>>, trace |-> <<>>, non_repeaters |-> 0, max_repetitions |-> 0]

Returned(f, result) == [f EXCEPT !.pc = "done", !.result = result]

\* the exception has left execute_query
Escaped(f) == [f EXCEPT !.pc = "raised"]

ErrorResult(text) == [k \in {ErrorKey} |-> VStr(text)]

\* execute_query without the test of the prepared list: with no OID the
\* loop of the command has nothing to do and its empty dict is returned
execute_query_NoEmptyTest(query, p, client_ok) ==
    LET Entered == [IdleFrame EXCEPT !.query = <<query>>]
    IN
    IF query.credentials.version \notin {"1", "2c"}
    THEN Returned(Entered,
                  ErrorResult("Only SNMP versions 1 and 2c are currently supported"))
    ELSE IF ~client_ok
    THEN Returned(Entered, ErrorResult("Failed to create SNMP client: invalid address"))
    ELSE IF upper(query.operation.command) \in {"GET", "GETNEXT", "WALK", "BULK"}
    THEN IF p.oids = <<>> THEN Returned(Entered, <<>>)
         ELSE [Entered EXCEPT
                  !.pc = "running",
                  !.command = upper(query.operation.command),
                  !.oids = p.oids,
                  !.non_repeaters = IntOr(query.operation.non_repeaters, 0),
                  !.max_repetitions = IntOr(query.operation.max_repetitions, 10)]
    ELSE Returned(Entered,
                  ErrorResult("Unsupported SNMP command: " \o query.operation.command))

\* execute_query comparing the command as it is spelled, not its upper case
execute_query_CaseSensitive(query, p, client_ok) ==
    LET Entered == [IdleFrame EXCEPT !.query = <<query>>]
    IN
    IF p.oids = <<>> THEN Returned(Entered, ErrorResult("No valid OIDs specified"))
    ELSE IF query.credentials.version \notin {"1", "2c"}
    THEN Returned(Entered,
                  ErrorResult("Only SNMP versions 1 and 2c are currently supported"))
    ELSE IF ~client_ok
    THEN Returned(Entered, ErrorResult("Failed to create SNMP client: invalid address"))
    ELSE IF query.operation.command \in {"GET", "GETNEXT", "WALK", "BULK"}
    THEN [Entered EXCEPT
             !.pc = "running",
             !.command = query.operation.command,
             !.oids = p.oids,
             !.non_repeaters = IntOr(query.operation.non_repeaters, 0),
             !.max_repetitions = IntOr(query.operation.max_repetitions, 10)]
    ELSE Returned(Entered,
                  ErrorResult("Unsupported SNMP command: " \o query.operation.command))

\* execute_query building a client for whatever version the query names
execute_query_AnyVersion(query, p, client_ok) ==
    LET Entered == [IdleFrame EXCEPT !.query = <<query>>]
    IN
    IF p.oids = <<>> THEN Returned(Entered, ErrorResult("No valid OIDs specified"))
    ELSE IF ~client_ok
    THEN Returned(Entered, ErrorResult("Failed to create SNMP client: invalid address"))
    ELSE IF upper(query.operation.command) \in {"GET", "GETNEXT", "WALK", "BULK"}
    THEN [Entered EXCEPT
             !.pc = "running",
             !.command = upper(query.operation.command),
             !.oids = p.oids,
             !.non_repeaters = IntOr(query.operation.non_repeaters, 0),
             !.max_repetitions = IntOr(query.operation.max_repetitions, 10)]
    ELSE Returned(Entered,
                  ErrorResult("Unsupported SNMP command: " \o query.operation.command))

\* execute_query up to its first protocol call: OID preparation, the version
\* gate with the construction of the client (client_ok: Client(...) did not
\* raise) and the dispatch on the command
execute_query(query, p, client_ok) ==
    LET Entered == [IdleFrame EXCEPT !.query = <<query>>]
        \* Client(...) inside its try statement: <<>> for the client built
        client == ExceptException(
                      IF client_ok THEN Returns(<<>>) ELSE Throws("ValueError"),
                      ErrorResult("Failed to create SNMP client: invalid address"))
    IN
    IF p.oids = <<>> THEN Returned(Entered, ErrorResult("No valid OIDs specified"))
    ELSE IF query.credentials.version \notin {"1", "2c"}
    THEN Returned(Entered,
                  ErrorResult("Only SNMP versions 1 and 2c are currently supported"))
    ELSE IF client.raises # "" THEN Escaped(Entered)
    ELSE IF client.ret[1] # <<>> THEN Returned(Entered, client.ret[1])
    ELSE IF upper(query.operation.command) \in {"GET", "GETNEXT", "WALK", "BULK"}
    THEN [Entered EXCEPT
             !.pc = "running",
             !.command = upper(query.operation.command),
             !.oids = p.oids,
             !.non_repeaters = IntOr(query.operation.non_repeaters, 0),
             !.max_repetitions = IntOr(query.operation.max_repetitions, 10)]
    ELSE Returned(Entered,
                  ErrorResult("Unsupported SNMP command: " \o query.operation.command))

\* What one protocol call does: the (oid, value) pairs it delivers, in
\* order, and the exception it then raises, <<>> when it raises none.
Reply(pairs, raises) == [pairs |-> pairs, raises |-> raises]
Pair(oid, value) == [oid |-> oid, value |-> value]

\* the message of the ValueError ObjectIdentifier raises on a malformed OID
BadOidMsg == <<"invalid", " ", "OID">>

\* the loop moves to the next OID, and the method returns after the last
NextOid(f) == [f EXCEPT !.i = @ + 1, !.pc = IF f.i = Len(f.oids) THEN "done" ELSE "running"]

Issued(f, op) ==
    [f EXCEPT !.calls = Append(@, [op |-> op, oid |-> f.oids[f.i],
                                   non_repeaters |-> f.non_repeaters,
                                   max_repetitions |-> f.max_repetitions])]

\* for the properties: what happened at the OID, "ok" or the class raised,
\* and the reply of the call
Traced(f, what, reply) ==
    [f EXCEPT !.trace = Append(@, [oid |-> f.oids[f.i], what |-> what, reply |-> reply])]

\* A pass over an OID that raised an exception of class cls, inside a try
\* statement whose handlers leave the dict `handled`: the loop goes on to
\* the next OID, or (ends) the method returns the dict.
PassFailed(f, cls, handled, reply, ends) ==
    LET outcome == ExceptException(Throws(cls), handled)
    IN  IF outcome.raises # "" THEN Escaped(Traced(f, cls, reply))
        ELSE LET g == Traced([f EXCEPT !.result = outcome.ret[1]], cls, reply)
             IN IF ends THEN [g EXCEPT !.pc = "done"] ELSE NextOid(g)

\* the except clauses of the loop body of _execute_get
GetErrorText(e) ==
    IF IsSnmpError(e.cls)
    THEN IF Contains(lower(e.msg), <<"no", " ", "such", " ", "object">>)
         THEN "No such object"
         ELSE IF Contains(lower(e.msg), <<"no", " ", "such", " ", "instance">>)
         THEN "No such instance"
         ELSE "Error: " \o Join(e.msg)
    ELSE "Error: " \o Join(e.msg)

\* execute_get without the handlers inside the loop: a failing OID ends the
\* method with a top-level error, as in _execute_bulk
execute_get_NoInnerHandler(f, reply) ==
    LET oid == f.oids[f.i]
    IN  IF ~IsNumericOid(oid)
        THEN [Traced([f EXCEPT !.result = With(@, ErrorKey, VStr(Join(BadOidMsg)))],
                     "ValueError", reply) EXCEPT !.pc = "done"]
        ELSE IF reply.raises = <<>>
        THEN NextOid(Traced([Issued(f, "get") EXCEPT !.result =
                 With(@, Or(translate_oid(oid), oid), format_value(reply.pairs[1].value))],
                 "ok", reply))
        ELSE [Traced([Issued(f, "get") EXCEPT !.result =
                 With(@, ErrorKey, VStr(Join(reply.raises[1].msg)))],
                 reply.raises[1].cls, reply) EXCEPT !.pc = "done"]

\* one pass of the loop of _execute_get
execute_get(f, reply) ==
    LET oid == f.oids[f.i]
    IN  IF ~IsNumericOid(oid)
        THEN PassFailed(f, "ValueError",
                        With(f.result, oid, VStr("Error: " \o Join(BadOidMsg))),
                        reply, FALSE)
        ELSE IF reply.raises = <<>>
        THEN NextOid(Traced([Issued(f, "get") EXCEPT !.result =
                 With(@, Or(translate_oid(oid), oid), format_value(reply.pairs[1].value))],
                 "ok", reply))
        ELSE PassFailed(Issued(f, "get"), reply.raises[1].cls,
                        With(f.result, oid, VStr(GetErrorText(reply.raises[1]))),
                        reply, FALSE)

\* the key _execute_getnext, _execute_walk and _execute_bulk file a returned
\* OID under: translate_oid(f".{oid}") or str(oid)
ReturnedKey(oid) == Or(translate_oid(<<Dot>> \o oid), oid)

RECURSIVE Merge(_, _)
\* result[key] = format_value(value) for each pair, in order
Merge(result, pairs) ==
    IF pairs = <<>> THEN result
    ELSE Merge(With(result, ReturnedKey(Head(pairs).oid), format_value(Head(pairs).value)),
               Tail(pairs))

\* one pass of the loop of _execute_getnext
execute_getnext(f, reply) ==
    LET oid == f.oids[f.i]
    IN  IF ~IsNumericOid(oid)
        THEN PassFailed(f, "ValueError",
                        With(f.result, oid, VStr("Error: " \o Join(BadOidMsg))),
                        reply, FALSE)
        ELSE IF reply.raises = <<>>
        THEN NextOid(Traced([Issued(f, "getnext") EXCEPT !.result =
                 Merge(@, reply.pairs)], "ok", reply))
        ELSE PassFailed(Issued(f, "getnext"), reply.raises[1].cls,
                        With(f.result, oid, VStr("Error: " \o Join(reply.raises[1].msg))),
                        reply, FALSE)

\* one pass of the loop of _execute_walk: the pairs the generator yields are
\* merged one by one until it is exhausted or raises
execute_walk(f, reply) ==
    LET oid == f.oids[f.i]
    IN  IF ~IsNumericOid(oid)
        THEN PassFailed(f, "ValueError",
                        With(f.result, oid \o <<"_error">>,
                             VStr("Error: " \o Join(BadOidMsg))),
                        reply, FALSE)
        ELSE IF reply.raises = <<>>
        THEN NextOid(Traced([Issued(f, "walk") EXCEPT !.result =
                 Merge(@, reply.pairs)], "ok", reply))
        ELSE PassFailed(Issued(f, "walk"), reply.raises[1].cls,
                        With(Merge(f.result, reply.pairs), oid \o <<"_error">>,
                             VStr("Error: " \o Join(reply.raises[1].msg))),
                        reply, FALSE)

\* one pass of the loop of _execute_bulk: nothing is caught inside the loop,
\* so whatever is raised ends the method with result["error"] set
execute_bulk(f, reply) ==
    LET oid == f.oids[f.i]
    IN  IF ~IsNumericOid(oid)
        THEN PassFailed(f, "ValueError", With(f.result, ErrorKey, VStr(Join(BadOidMsg))),
                        reply, TRUE)
        ELSE IF reply.raises = <<>>
        THEN NextOid(Traced([Issued(f, "bulkget") EXCEPT !.result =
                 Merge(@, reply.pairs)], "ok", reply))
        ELSE PassFailed(Issued(f, "bulkget"), reply.raises[1].cls,
                        With(f.result, ErrorKey, VStr(Join(reply.raises[1].msg))),
                        reply, TRUE)

(***************************************************************************)
(* Inputs of the model.                                                    *)
(***************************************************************************)
Query(host, version, community, command, oids, mib_names) ==
    [target |-> [host |-> host, port |-> 161, timeout |-> 5, retries |-> 3],
     credentials |-> [version |-> version, community |-> community],
     operation |-> [command |-> command, oids |-> oids, mib_names |-> mib_names,
                    max_repetitions |-> <<>>, non_repeaters |-> <<>>],
     raw_query |-> <<>>]

\* ".1.3.6.1.2.1.1.1.0"
DottedSysDescr == <<Dot>> \o SysOid("1")
\* "IF-MIB::ifDescr.3"
IfDescr3 == IfName("ifDescr") \o <<Dot, "3">>
\* "1.3.9", an OID the registry does not know
UnknownOid == Dotted(<<"1", "3", "9">>)

\* "SNMPv2-MIB::noSuchName.0", a name the registry does not know
NoSuchName == SysName("noSuchName")

RawOids == {DottedSysDescr, IfDescr3, UnknownOid}

OidLists == UNION {[1..n -> RawOids] : n \in 0..MaxOids}

\* values of credentials.version other than "1" and "2c"
OtherVersions == {"3", "2", ""}

\* spellings of the four commands in other letter cases, and command
\* strings that name none of the four
OtherCases == {"get", "Get", "gEt", "getnext", "GetNext", "walk", "Walk", "bulk", "bUlK"}
OtherCommands == {"set", "SET", "getbulk", "GETS", ""}

ExecQueries ==
    {Query("10.0.0.1", "2c", <<"public">>, command, oids, <<>>) :
        command \in {"GET", "GETNEXT", "WALK", "BULK"}, oids \in OidLists}
    \cup {Query("10.0.0.1", version, <<>>, command, oids, <<>>) :
            version \in OtherVersions, command \in {"GET", "walk", "BULK", "set"},
            oids \in {<<>>, <<DottedSysDescr>>, <<IfDescr3, UnknownOid>>}}
    \cup {Query("10.0.0.1", "1", <<>>, command, oids, <<>>) :
            command \in OtherCases \cup OtherCommands,
            oids \in {<<DottedSysDescr>>, <<IfDescr3, UnknownOid>>}}
    \cup {Query("10.0.0.1", "1", <<>>, "get", <<DottedSysDescr>>, <<>>),
          Query("10.0.0.1", "2c", <<>>, "set", <<DottedSysDescr>>, <<>>),
          Query("10.0.0.1", "2c", <<>>, "WALK", <<>>, << <<"NO-MIB">> >>),
          Query("10.0.0.1", "2c", <<>>, "GET", <<NoSuchName>>, <<>>),
          Query("10.0.0.1", "2c", <<>>, "GET", <<DottedSysDescr, NoSuchName>>, <<>>),
          Query("10.0.0.1", "2c", <<>>, "GET", <<NoSuchName>>, << <<"NO-MIB">> >>),
          Query("10.0.0.1", "2c", <<>>, "GET", << <<"bogus">> >>, <<>>)}

\* b"Linux box"
LinuxBox == <<76, 105, 110, 117, 120, 32, 98, 111, 120>>

NoSuchObject == Exc("SnmpError", <<"No", " ", "Such", " ", "Object">>)
NoSuchInstance == Exc("SnmpError", <<"no", " ", "such", " ", "instance">>)
GenericSnmpError == Exc("SnmpError", <<"generic", " ", "failure">>)
TimedOut == Exc("Timeout", <<"timed", " ", "out">>)
Refused == Exc("ConnectionRefusedError", <<"connection", " ", "refused">>)

\* the failures of one OID that the protocol reports, and those of the transport
ProtocolErrors == {"SnmpError"}
TransportErrors == {"Timeout", "ConnectionRefusedError"}

GetReplies ==
    {Reply(<<Pair(<<>>, v)>>, <<>>) : v \in {VBytes(LinuxBox), VInt(42)}}
    \cup {Reply(<<>>, <<e>>) : e \in {NoSuchObject, NoSuchInstance, GenericSnmpError, TimedOut}}

ReturnedPair1 == Pair(SysOid("1"), VBytes(LinuxBox))
ReturnedPair2 == Pair(Dotted(<<"1", "3", "9", "1">>), VInt(42))

GetNextReplies ==
    {Reply(<<p>>, <<>>) : p \in {ReturnedPair1, ReturnedPair2}}
    \cup {Reply(<<>>, <<e>>) : e \in {GenericSnmpError, Refused}}

WalkReplies ==
    {Reply(pairs, raises) :
        pairs \in {<<>>, <<ReturnedPair1>>, <<ReturnedPair1, ReturnedPair2>>},
        raises \in {<<>>, <<TimedOut>>}}

BulkReplies ==
    {Reply(pairs, <<>>) : pairs \in {<<ReturnedPair1>>, <<ReturnedPair1, ReturnedPair2>>}}
    \cup {Reply(<<>>, <<e>>) : e \in {GenericSnmpError, TimedOut}}

\* What the properties of the cache need to remember: the number of clock
\* steps and of set calls so far, the last cache call with what it
\* returned and the flag it ran under, for each key whose last set (with
\* the cache enabled) no clear has touched since, the arguments and the
\* time of that set, and the keys the last clear_cache call deleted.
NoObservations ==
    [ticks |-> 0, sets |-> 0,
     last |-> [op |-> "none", key |-> <<>>, ret |-> Absent, at |-> 0, enabled |-> TRUE],
     given |-> <<>>, removed |-> {}]

(***************************************************************************)
(* SpecExec: one execute_query call, from its entry to its return.         *)
(***************************************************************************)
CacheIdle ==
    /\ cache = <<>>
    /\ last_cleanup = 0
    /\ now = 0
    /\ cache_enabled = TRUE
    /\ cobs = NoObservations

ExecInit ==
    /\ ex = IdleFrame
    /\ rs = [RetryFrame EXCEPT !.status = "idle"]
    /\ CacheIdle
    /\ req = <<>>
    /\ plog = <<>>
    /\ mib = MIBService

\* one execute_query call enters with a query drawn from `queries`
ExecStartOf(queries) ==
    /\ ex.pc = "idle"
    /\ \E query \in queries, client_ok \in BOOLEAN :
          LET p == prepare_oids(query.operation, cache, last_cleanup, now, cache_enabled)
          IN /\ ex' = execute_query(query, p, client_ok)
             /\ cache' = p.cache
             /\ last_cleanup' = p.last_cleanup
    /\ UNCHANGED <<rs, now, cache_enabled, cobs, req, plog, mib>>

ExecStart == ExecStartOf(ExecQueries)

\* one pass of the loop of _execute_get, the device answering with one of `replies`
ExecGetOf(replies) ==
    /\ ex.pc = "running" /\ ex.command = "GET"
    /\ \E reply \in replies : ex' = execute_get(ex, reply)
    /\ UNCHANGED <<rs, cache, last_cleanup, now, cache_enabled,
                   cobs, req, plog, mib>>

ExecGet == ExecGetOf(GetReplies)

ExecGetNextOf(replies) ==
    /\ ex.pc = "running" /\ ex.command = "GETNEXT"
    /\ \E reply \in replies : ex' = execute_getnext(ex, reply)
    /\ UNCHANGED <<rs, cache, last_cleanup, now, cache_enabled,
                   cobs, req, plog, mib>>

ExecGetNext == ExecGetNextOf(GetNextReplies)

ExecWalkOf(replies) ==
    /\ ex.pc = "running" /\ ex.command = "WALK"
    /\ \E reply \in replies : ex' = execute_walk(ex, reply)
    /\ UNCHANGED <<rs, cache, last_cleanup, now, cache_enabled,
                   cobs, req, plog, mib>>

ExecWalk == ExecWalkOf(WalkReplies)

ExecBulkOf(replies) ==
    /\ ex.pc = "running" /\ ex.command = "BULK"
    /\ \E reply \in replies : ex' = execute_bulk(ex, reply)
    /\ UNCHANGED <<rs, cache, last_cleanup, now, cache_enabled,
                   cobs, req, plog, mib>>

ExecBulk == ExecBulkOf(BulkReplies)

ExecNext == ExecStart \/ ExecGet \/ ExecGetNext \/ ExecWalk \/ ExecBulk

SpecExec == ExecInit /\ [][ExecNext]_vars

(***************************************************************************)
(* SpecCommands: one execute_query call of each of the four commands, the  *)
(* BULK fields given or left out, the device answering with values of      *)
(* every Python type and with OIDs the registry knows exactly, knows by a  *)
(* prefix, or does not know.                                               *)
(***************************************************************************)
BulkQuery(oids, non_repeaters, max_repetitions) ==
    [Query("10.0.0.1", "2c", <<"public">>, "BULK", oids, <<>>)
        EXCEPT !.operation.non_repeaters = non_repeaters,
               !.operation.max_repetitions = max_repetitions]

\* operation.oids: an exact registry OID; a name with an index and an OID
\* the registry does not know
CommandOids == {<<DottedSysDescr>>, <<IfDescr3, UnknownOid>>}

\* operation.non_repeaters and operation.max_repetitions: left out, 0, given
BulkFields == {<<>>, <<0>>, <<2>>}

CommandQueries ==
    {Query("10.0.0.1", "2c", <<"public">>, command, oids, <<>>) :
        command \in {"GET", "GETNEXT", "WALK"}, oids \in CommandOids}
    \cup {BulkQuery(oids, non_repeaters, max_repetitions) :
            oids \in CommandOids, non_repeaters \in BulkFields,
            max_repetitions \in BulkFields}

\* what a call hands to _format_value: b"Linux box", b"\xff\xfe" (not
\* UTF-8), b"\xc3\xa9" (two bytes, one character), 42, 1.5, True, "up" and
\* an object of the library
DeviceValues ==
    {VBytes(LinuxBox), VBytes(<<255, 254>>), VBytes(<<195, 169>>), VInt(42),
     VFloat("1.5"), VBool(TRUE), VStr("up"), VObj("Gauge32(7)")}

\* the OIDs the device returns: sysDescr.0, ifDescr.3 and 1.3.9.1
ReturnedOids == {SysOid("1"), IfOid("2") \o <<Dot, "3">>, Dotted(<<"1", "3", "9", "1">>)}

OnePair == {<<Pair(oid, value)>> : oid \in ReturnedOids, value \in DeviceValues}

CommandGetReplies ==
    {Reply(<<Pair(<<>>, value)>>, <<>>) : value \in DeviceValues}
    \cup {Reply(<<>>, <<GenericSnmpError>>)}

CommandGetNextReplies ==
    {Reply(pairs, <<>>) : pairs \in OnePair} \cup {Reply(<<>>, <<GenericSnmpError>>)}

CommandWalkReplies ==
    {Reply(pairs, raises) :
        pairs \in OnePair \cup {<<>>, <<ReturnedPair1, ReturnedPair2>>},
        raises \in {<<>>, <<TimedOut>>}}

CommandBulkReplies ==
    {Reply(pairs, <<>>) : pairs \in OnePair \cup {<<ReturnedPair1, ReturnedPair2>>}}
    \cup {Reply(<<>>, <<GenericSnmpError>>)}

CommandStart == ExecStartOf(CommandQueries)
CommandGet == ExecGetOf(CommandGetReplies)
CommandGetNext == ExecGetNextOf(CommandGetNextReplies)
CommandWalk == ExecWalkOf(CommandWalkReplies)
CommandBulk == ExecBulkOf(CommandBulkReplies)

CommandsNext ==
    CommandStart \/ CommandGet \/ CommandGetNext \/ CommandWalk \/ CommandBulk

SpecCommands == ExecInit /\ [][CommandsNext]_vars

(***************************************************************************)
(* SpecRetry: one _call_openai_with_retry call, and what process_query     *)
(* makes of its result.                                                    *)
(***************************************************************************)
\* a completion whose text is the canonical JSON of the sysDescr query
SysDescrJson ==
    JObj([k \in {"target", "operation"} |->
        IF k = "target" THEN JObj([f \in {"host"} |-> JStr("10.0.0.1")])
        ELSE JObj([f \in {"command", "oids"} |->
                 IF f = "command" THEN JStr("GET") ELSE JList(<<JStr(DottedSysDescr)>>)])])

\* {"target": {"host": "10.0.0.1", "port": 1161},
\*  "credentials": {"version": "1", "community": "private"},
\*  "operation": {"command": "BULK", "oids": [".1.3.6.1.2.1.1.1.0",
\*  "IF-MIB::ifDescr.3"], "max_repetitions": 5}, "raw_query": "from the model"}
BulkJson ==
    JObj("target" :> JObj("host" :> JStr("10.0.0.1") @@ "port" :> JInt(1161))
         @@ "credentials" :> JObj("version" :> JStr("1") @@ "community" :> JStr("private"))
         @@ "operation" :> JObj("command" :> JStr("BULK")
                                @@ "oids" :> JList(<<JStr(DottedSysDescr), JStr(IfDescr3)>>)
                                @@ "max_repetitions" :> JInt(5))
         @@ "raw_query" :> JStr("from the model"))

\* {"target": {"port": 161}, "operation": {"command": "GET"}}: no host
MissingHostJson ==
    JObj("target" :> JObj("port" :> JInt(161))
         @@ "operation" :> JObj("command" :> JStr("GET")))

\* {"target": {"host": "10.0.0.1", "port": "abc"}, "operation": {"command": "GET"}}
WrongTypeJson ==
    JObj("target" :> JObj("host" :> JStr("10.0.0.1") @@ "port" :> JStr("abc"))
         @@ "operation" :> JObj("command" :> JStr("GET")))

\* {"target": {"host": ""}, "operation": {"command": "set"}}
UnexecutableJson ==
    JObj("target" :> JObj("host" :> JStr(""))
         @@ "operation" :> JObj("command" :> JStr("set")))

\* {"target_ip": "10.0.0.1", "port": 1161, "snmp_version": "1",
\*  "community_string": "private", "operation": "WALK", "oid": "1.3.6.1.2.1.1.5.0"}
LegacyWalkJson ==
    JObj("target_ip" :> JStr("10.0.0.1") @@ "port" :> JInt(1161)
         @@ "snmp_version" :> JStr("1") @@ "community_string" :> JStr("private")
         @@ "operation" :> JStr("WALK") @@ "oid" :> JStr(SysOid("5")))

\* {"target_ip": "10.0.0.1", "operation": "getnext"}
LegacyGetNextJson ==
    JObj("target_ip" :> JStr("10.0.0.1") @@ "operation" :> JStr("getnext"))

\* {}
EmptyJson == JObj(<<>>)

\* {"target": {"host": "10.0.0.9"}}: the key "operation" is missing
TargetOnlyJson == JObj("target" :> JObj("host" :> JStr("10.0.0.9")))

\* {"target_ip": 5}
LegacyWrongTypeJson == JObj("target_ip" :> JInt(5))

\* []
ListJson == JList(<<>>)

\* the JSON texts the model answers with, by what process_query makes of them
ValidJsons ==
    {SysDescrJson, BulkJson, UnexecutableJson, LegacyWalkJson, LegacyGetNextJson,
     EmptyJson, TargetOnlyJson}
InvalidJsons == {MissingHostJson, WrongTypeJson, LegacyWrongTypeJson, ListJson}

\* message.content of a completion: JSON text, other text, "" or None
Contents ==
    {Content("{...}", <<json>>) : json \in ValidJsons \cup InvalidJsons}
    \cup {Content("not json", <<>>), Content("", <<>>), <<>>}

\* {"SNMPv2-MIB::sysDescr.0": "Linux box"}
SysDescrResult == [k \in {SysName("sysDescr")} |-> VStr("Linux box")]

CreateOutcomes ==
    {Completion(c) : c \in Contents}
    \cup {Raises("RateLimitError", 429), Raises("APIConnectionError", 0),
          Raises("OpenAIError", 0), Raises("Exception", 0)}
    \cup {Raises("APIError", code) : code \in {0, 400, 499, 500, 599, 600}}

\* time.time() % 1, in milliseconds
Jitters == {0, 999}

RetryInit ==
    /\ rs \in {TranslateFrame, SummarizeFrame(SysDescrResult, "what is it")}
    /\ ex = IdleFrame
    /\ CacheIdle
    /\ req = <<>>
    /\ plog = <<>>
    /\ mib = MIBService

CallOpenAI ==
    /\ rs.status = "running"
    /\ \E out \in CreateOutcomes, jitter_ms \in Jitters :
          rs' = llm_call(rs, out, jitter_ms)
    /\ UNCHANGED <<ex, cache, last_cleanup, now, cache_enabled,
                   cobs, req, plog, mib>>

RetryNext == CallOpenAI

SpecRetry == RetryInit /\ [][RetryNext]_vars

(***************************************************************************)
(* SpecTranslate: the /query handler from its call of process_query to the *)
(* return of execute_query (api/main.py lines 62 to 71), the cache aside.  *)
(***************************************************************************)
RequestTexts == {"describe 10.0.0.1", "walk 10.0.0.1"}

\* the frame of process_query(query)
TranslateCall(query) == [TranslateFrame EXCEPT !.args = [query |-> query]]

TranslateInit ==
    /\ rs \in {TranslateCall(query) : query \in RequestTexts}
    /\ ex = IdleFrame
    /\ CacheIdle
    /\ req = <<>>
    /\ plog = <<>>
    /\ mib = MIBService

\* process_query has returned a query: the handler stores the text in it and
\* calls execute_query, which runs up to its first protocol call.  With None
\* returned the handler raises and the request is over.
ExecuteTranslated ==
    /\ rs.status = "returned"
    /\ rs.caller = "process_query"
    /\ rs.value # <<Absent>>
    /\ ex.pc = "idle"
    /\ \E client_ok \in BOOLEAN :
          LET snmp_query == Attached(rs.value[1][1], rs.args.query)
              p == prepare_oids(snmp_query.operation, cache, last_cleanup, now,
                                cache_enabled)
          IN /\ ex' = execute_query(snmp_query, p, client_ok)
             /\ cache' = p.cache
             /\ last_cleanup' = p.last_cleanup
    /\ UNCHANGED <<rs, now, cache_enabled, cobs, req, plog, mib>>

TranslateNext ==
    CallOpenAI \/ ExecuteTranslated \/ ExecGet \/ ExecGetNext \/ ExecWalk \/ ExecBulk

SpecTranslate == TranslateInit /\ [][TranslateNext]_vars

(***************************************************************************)
(* SpecCore: one call of one of the three entry points of the services,   *)
(* process_query, format_response or execute_query, from entry to end.     *)
(***************************************************************************)
CoreInit == RetryInit \/ ExecInit

CoreNext == RetryNext \/ (rs.status = "idle" /\ ExecNext)

SpecCore == CoreInit /\ [][CoreNext]_vars

(***************************************************************************)
(* Properties of the retry loop, checked under SpecRetry.                  *)
(***************************************************************************)
Retryable(out) ==
    \/ out.kind \in {"RateLimitError", "APIConnectionError"}
    \/ out.kind = "APIError" /\ out.status_code \in 500..599

Failed(out) == out.kind # "ok"

AllRateLimited == \A i \in 1..Len(rs.outcomes) : rs.outcomes[i].kind = "RateLimitError"

\* C4: while every call is answered with a rate-limit error the loop keeps
\* calling up to the 4th attempt, and with the 4th it returns None, which
\* process_query turns into None (translation failure).
C4_RetryCeiling ==
    AllRateLimited =>
        IF rs.attempts < 4 THEN rs.status = "running"
        ELSE /\ rs.attempts = 4
             /\ rs.status = "returned"
             /\ rs.result = Absent
             /\ rs.caller = "process_query" => rs.value = <<Absent>>

C4_Witness ==
    /\ rs.caller = "process_query"
    /\ rs.status = "returned"
    /\ rs.attempts = 4
    /\ AllRateLimited
    /\ rs.value = <<Absent>>

\* C5: whatever the outcomes, the loop makes at most 4 calls and has returned
\* with the 4th; retry_count counts the retryable failures of every class
\* together; a success is the last call made and its completion is what the
\* loop returns.
C5_SharedBudget ==
    /\ rs.attempts <= max_retries + 1
    /\ rs.attempts = Len(rs.outcomes)
    /\ rs.attempts = max_retries + 1 => rs.status = "returned"
    /\ rs.retry_count = Cardinality({i \in 1..Len(rs.outcomes) : Retryable(rs.outcomes[i])})
    /\ \A i \in 1..Len(rs.outcomes) :
          rs.outcomes[i].kind = "ok" =>
              /\ i = Len(rs.outcomes)
              /\ rs.status = "returned"
              /\ rs.result = <<rs.outcomes[i]>>

C5_Witness ==
    /\ rs.status = "returned"
    /\ rs.attempts = 4
    /\ rs.outcomes[1].kind = "RateLimitError"
    /\ rs.outcomes[2].kind = "APIConnectionError"
    /\ rs.outcomes[3].kind = "APIError"
    /\ rs.outcomes[4].kind = "ok"
    /\ rs.result = <<rs.outcomes[4]>>

\* C6: a call that fails with an error that is not a rate limit, a connection
\* error or a 5xx API error is the last call: the loop has returned None, and
\* it slept only after the earlier calls, not after this one.
C6_NonRetryableFailsAtOnce ==
    \A i \in 1..Len(rs.outcomes) :
        Failed(rs.outcomes[i]) /\ ~Retryable(rs.outcomes[i]) =>
            /\ i = Len(rs.outcomes)
            /\ rs.status = "returned"
            /\ rs.result = Absent
            /\ Len(rs.delays) = i - 1
            /\ rs.retry_count = i - 1

C6_Witness ==
    /\ rs.status = "returned"
    /\ Len(rs.outcomes) = 2
    /\ Retryable(rs.outcomes[1])
    /\ rs.outcomes[2] = Raises("APIError", 400)
    /\ rs.result = Absent
    /\ Len(rs.delays) = 1

(***************************************************************************)
(* Properties of the executor, checked under SpecExec.                     *)
(***************************************************************************)
Distinct(seq) == \A i, j \in 1..Len(seq) : i # j => seq[i] # seq[j]

\* the key _execute_get files the value of a prepared OID under
GetKey(oid) == Or(translate_oid(oid), oid)

GetErrorTexts ==
    {VStr("No such object"), VStr("No such instance"),
     VStr("Error: " \o Join(GenericSnmpError.msg))}

PartialGetCase ==
    /\ ex.pc = "done"
    /\ ex.command = "GET"
    /\ Len(ex.oids) = 3
    /\ Distinct(ex.oids)
    /\ Len(ex.trace) >= 2
    /\ ex.trace[1].what = "ok"
    /\ ex.trace[2].what \in ProtocolErrors
    /\ \A k \in 3..Len(ex.trace) : ex.trace[k].what = "ok"

\* C7: a GET over three distinct prepared OIDs that has returned, and in
\* which only the second get failed, with a per-OID protocol error, has
\* issued a get for each of the three in order and returns a map with the formatted value of the first and of
\* the third under their keys, an error text under the second OID, and no
\* "error" key.
C7_PartialGetIsolation ==
    PartialGetCase =>
        /\ Len(ex.trace) = 3
        /\ Len(ex.calls) = 3
        /\ \A k \in 1..3 : ex.calls[k].op = "get" /\ ex.calls[k].oid = ex.oids[k]
        /\ ErrorKey \notin DOMAIN ex.result
        /\ DOMAIN ex.result = {GetKey(ex.oids[1]), ex.oids[2], GetKey(ex.oids[3])}
        /\ ex.result[ex.oids[2]] \in GetErrorTexts
        /\ \A k \in {1, 3} :
              ex.result[GetKey(ex.oids[k])] = format_value(ex.trace[k].reply.pairs[1].value)

C7_Witness ==
    /\ PartialGetCase
    /\ Len(ex.calls) = 3
    /\ ex.oids = <<SysOid("1"), UnknownOid, IfOid("2") \o <<Dot, "3">> >>
    /\ ex.result[SysName("sysDescr")] = VStr("Linux box")
    /\ ex.result[UnknownOid] = VStr("No such object")
    /\ ex.result[IfName("ifDescr") \o <<Dot, "3">>] = VInt(42)

\* C8: a GET over a non-empty list of prepared OIDs of which every one fails
\* returns a map whose only key is "error".
C8_ZeroResultGet ==
    ( /\ ex.pc = "done"
      /\ ex.command = "GET"
      /\ ex.trace # <<>>
      /\ \A k \in 1..Len(ex.trace) : ex.trace[k].what # "ok" )
    => DOMAIN ex.result = {ErrorKey}

\* C9: for each command, a transport failure at one OID ends the command: it
\* is the last OID tried, no call follows it, and the map returned has
\* "error" as its only key.
C9_TransportFailureAborts ==
    \A k \in 1..Len(ex.trace) :
        ex.trace[k].what \in TransportErrors =>
            /\ k = Len(ex.trace)
            /\ ex.pc = "done"
            /\ DOMAIN ex.result = {ErrorKey}

\* C10: for each command, a per-OID protocol error does not end the command:
\* when the command returns, every prepared OID has been tried and the
\* protocol operation has been issued for each.
C10_PartialFailureEveryCommand ==
    ( /\ ex.pc = "done"
      /\ \E k \in 1..Len(ex.trace) : ex.trace[k].what \in ProtocolErrors )
    => /\ Len(ex.trace) = Len(ex.oids)
       /\ Len(ex.calls) = Len(ex.oids)

\* C11: a call of execute_query whose credentials.version is neither "1" nor
\* "2c" has returned at once, whatever its command and its OID list are: the
\* map it returns has the key "error", and no get, getnext, walk or bulkget
\* was issued.
C11_UnsupportedVersion ==
    (ex.pc # "idle" /\ ex.query[1].credentials.version \notin {"1", "2c"}) =>
        /\ ex.pc = "done"
        /\ ErrorKey \in DOMAIN ex.result
        /\ ex.calls = <<>>
        /\ ex.trace = <<>>

C11_Witness ==
    /\ ex.pc = "done"
    /\ ex.query[1].credentials.version = "3"
    /\ ex.query[1].operation.command = "BULK"
    /\ ex.query[1].operation.oids = <<IfDescr3, UnknownOid>>
    /\ ex.result = ErrorResult("Only SNMP versions 1 and 2c are currently supported")
    /\ ex.calls = <<>>

\* the list _prepare_oids makes of the operation of the call
PreparedOids ==
    prepare_oids(ex.query[1].operation, cache, last_cleanup, now, cache_enabled).oids

\* C12: a call of execute_query whose operation prepares to the empty list
\* (operation.oids adds nothing and every name of operation.mib_names
\* expands to nothing) has returned exactly {"error": "No valid OIDs
\* specified"}, and no protocol call was issued.
C12_EmptyOidSet ==
    (ex.pc # "idle" /\ PreparedOids = <<>>) =>
        /\ ex.pc = "done"
        /\ ex.result = ErrorResult("No valid OIDs specified")
        /\ ex.calls = <<>>

C12_Witness ==
    /\ ex.pc = "done"
    /\ ex.query[1].credentials.version = "2c"
    /\ ex.query[1].operation.oids = <<NoSuchName>>
    /\ ex.query[1].operation.mib_names = << <<"NO-MIB">> >>
    /\ PreparedOids = <<>>
    /\ ex.result = ErrorResult("No valid OIDs specified")

\* the spellings of each command, and the protocol operation it runs
Spellings ==
    [c \in {"GET", "GETNEXT", "WALK", "BULK"} |->
        IF c = "GET" THEN {"GET", "get", "Get", "gEt"}
        ELSE IF c = "GETNEXT" THEN {"GETNEXT", "getnext", "GetNext"}
        ELSE IF c = "WALK" THEN {"WALK", "walk", "Walk"}
        ELSE {"BULK", "bulk", "bUlK"}]
ProtocolOp ==
    [c \in {"GET", "GETNEXT", "WALK", "BULK"} |->
        IF c = "GET" THEN "get" ELSE IF c = "GETNEXT" THEN "getnext"
        ELSE IF c = "WALK" THEN "walk" ELSE "bulkget"]

\* the call got as far as the dispatch on the command: the prepared list is
\* not empty, the version is supported and the client was built
Dispatched ==
    /\ ex.pc # "idle"
    /\ PreparedOids # <<>>
    /\ ex.query[1].credentials.version \in {"1", "2c"}
    /\ ex.result # ErrorResult("Failed to create SNMP client: invalid address")

RECURSIVE Collected(_, _, _)
\* the map the passes trace[1..k] of a command build when none of them fails
Collected(command, trace, k) ==
    IF k = 0 THEN <<>>
    ELSE IF command = "GET"
    THEN With(Collected(command, trace, k - 1), GetKey(trace[k].oid),
              format_value(trace[k].reply.pairs[1].value))
    ELSE Merge(Collected(command, trace, k - 1), trace[k].reply.pairs)

Contribution(entry) ==
    IF startswith(entry, <<Dot>>) THEN lstrip_dot(entry)
    ELSE IF resolve_oid(entry) # None THEN resolve_oid(entry)
    ELSE entry

\* C14: in a call that reached its command, with no MIB name to expand, the
\* prepared list has one OID for each entry of operation.oids, in order,
\* and the OID is the contribution of the entry: no entry is dropped.
C14_OidPreparation ==
    (ex.command # "" /\ ex.query[1].operation.mib_names = <<>>) =>
        LET entries == ex.query[1].operation.oids
        IN  /\ Len(ex.oids) = Len(entries)
            /\ \A k \in 1..Len(entries) : ex.oids[k] = Contribution(entries[k])

(***************************************************************************)
(* Properties of the three entry points together, checked under SpecCore.  *)
(***************************************************************************)
\* C15: whatever the language-model API and the SNMP transport do, no
\* exception leaves process_query, format_response or execute_query:
\* process_query ends by returning None or a query, format_response by
\* returning a response object, and execute_query by returning its dict.
C15_NoFaultCrossesBoundary ==
    /\ rs.status \in {"idle", "running", "returned"}
    /\ ex.pc \in {"idle", "running", "done"}
    /\ (rs.status = "returned" /\ rs.caller = "process_query") =>
          \/ rs.value = <<Absent>>
          \/ /\ Len(rs.value[1]) = 1
             /\ DOMAIN rs.value[1][1] = {"target", "credentials", "operation", "raw_query"}
    /\ (rs.status = "returned" /\ rs.caller = "format_response") =>
          DOMAIN rs.value[1] = {"raw_data", "summary", "query", "error"}
    /\ ex.pc = "done" =>
          \A key \in DOMAIN ex.result :
              ex.result[key].type \in {"str", "int", "bool", "float"}

\* process_query has returned None for a completion whose content is None,
\* on which json.loads raises a TypeError
C15_Witness ==
    /\ rs.caller = "process_query"
    /\ rs.status = "returned"
    /\ rs.outcomes = <<Completion(<<>>)>>
    /\ rs.value = <<Absent>>

(***************************************************************************)
(* SpecCache: the cache under any sequence of get, set and clear calls,    *)
(* the clock advancing between them.                                       *)
(***************************************************************************)
\* "mib_A" and "query_C"
CacheKeys == {<<"mib_", "A">>, <<"query_", "C">>}
CacheValues == {"v1", "v2"}
\* the ttl argument of set_cache: omitted, 0 or 1 second
TtlArgs == {<<>>, <<0>>, <<1>>}
\* the key_prefix argument of clear_cache
Prefixes == {<<>>, <<"mib_">>, <<"query_">>}
\* the seconds the clock advances by in one step
ClockSteps == {1, CLEANUP_INTERVAL + 1, cache_ttl}

CacheInit ==
    /\ cache = <<>>
    /\ last_cleanup = 0
    /\ now = 0
    /\ cache_enabled \in BOOLEAN
    /\ cobs = NoObservations
    /\ rs = [RetryFrame EXCEPT !.status = "idle"]
    /\ ex = IdleFrame
    /\ req = <<>>
    /\ plog = <<>>
    /\ mib = MIBService

\* time.time() advances by one of the steps, at most `most` times in one
\* behaviour
TickOf(steps, most) ==
    /\ cobs.ticks < most
    /\ \E d \in steps : now' = now + d
    /\ cobs' = [cobs EXCEPT !.ticks = @ + 1]
    /\ UNCHANGED <<rs, ex, cache, last_cleanup, cache_enabled, req, plog, mib>>

Tick == TickOf(ClockSteps, MaxTicks)

\* a get_cache call on one of the keys
CacheGetOf(keys) ==
    /\ \E key \in keys :
          LET g == get_cache(cache, last_cleanup, now, cache_enabled, key)
          IN /\ cache' = g.cache
             /\ last_cleanup' = g.last_cleanup
             /\ cobs' = [cobs EXCEPT !.last =
                            [op |-> "get", key |-> key, ret |-> g.ret, at |-> now,
                             enabled |-> cache_enabled]]
    /\ UNCHANGED <<rs, ex, now, cache_enabled, req, plog, mib>>

CacheGet == CacheGetOf(CacheKeys)

\* a set_cache call with one of the keys, values and ttl arguments, at most
\* `most` of them in one behaviour
CacheSetOf(keys, values, ttls, most) ==
    /\ cobs.sets < most
    /\ \E key \in keys, value \in values, ttl \in ttls :
          /\ cache' = set_cache(cache, now, cache_enabled, key, value, ttl)
          /\ cobs' = [cobs EXCEPT
                         !.sets = @ + 1,
                         !.last = [op |-> "set", key |-> key, ret |-> Absent, at |-> now,
                                   enabled |-> cache_enabled],
                         !.given = IF cache_enabled
                                   THEN With(@, key, [value |-> value, at |-> now, ttl |-> ttl])
                                   ELSE @]
    /\ UNCHANGED <<rs, ex, last_cleanup, now, cache_enabled, req, plog, mib>>

CacheSet == CacheSetOf(CacheKeys, CacheValues, TtlArgs, MaxSets)

CacheClear ==
    /\ \E key_prefix \in Prefixes :
          /\ cache' = clear_cache(cache, key_prefix)
          /\ cobs' = [cobs EXCEPT
                         !.last = [op |-> "clear", key |-> key_prefix, ret |-> Absent,
                                   at |-> now, enabled |-> cache_enabled],
                         !.given = Without(@, {k \in DOMAIN @ :
                                       key_prefix = <<>> \/ startswith(k, key_prefix)}),
                         !.removed = DOMAIN cache \ DOMAIN clear_cache(cache, key_prefix)]
    /\ UNCHANGED <<rs, ex, last_cleanup, now, cache_enabled, req, plog, mib>>

CacheNext == Tick \/ CacheGet \/ CacheSet \/ CacheClear

SpecCache == CacheInit /\ [][CacheNext]_vars

(***************************************************************************)
(* SpecKeys: the cache over three keys, config.cache_enabled being         *)
(* assigned between the calls.                                             *)
(***************************************************************************)
\* "mib_A", "mib_B" and "query_C"
KeyNames == {<<"mib_", "A">>, <<"mib_", "B">>, <<"query_", "C">>}

\* the set_cache calls and the steps of the clock in one behaviour
MaxKeySets == 3
MaxKeyTicks == 1

KeysGet == CacheGetOf(KeyNames)

KeysSet == CacheSetOf(KeyNames, {"v1"}, {<<>>, <<1>>}, MaxKeySets)

\* config.cache_enabled, a field of the module-level config object that
\* get_cache and set_cache read at every call, is assigned
SetCacheEnabled ==
    /\ cache_enabled' = ~cache_enabled
    /\ UNCHANGED <<rs, ex, cache, last_cleanup, now, cobs, req, plog, mib>>

\* the clock passes the ttl of an entry set with ttl=1
KeysTick == TickOf({2}, MaxKeyTicks)

KeysNext == KeysTick \/ KeysGet \/ KeysSet \/ CacheClear \/ SetCacheEnabled

SpecKeys == CacheInit /\ [][KeysNext]_vars

(***************************************************************************)
(* SpecMib: the name registry under any sequence of resolve_oid,           *)
(* translate_oid, get_mib_oids and add_mib_file calls and of the           *)
(* executor's _prepare_oids, the clock advancing and the cache being       *)
(* cleared between them.                                                   *)
(***************************************************************************)
IfDescr == IfName("ifDescr")
IfNumber == <<"IF-MIB", "::", "ifNumber">>
CiscoCpu == <<"CISCO-MIB", "::", "cpmCPUTotal5sec">>

\* the names resolve_oid is called with: registered ones with and without
\* an index of their own, registered ones followed by an index, names whose
\* text before the first "." is not registered, a name with a leading ".",
\* the empty name and a numeric OID
NameArgs ==
    { SysName("sysDescr"), IfDescr, IfNumber \o <<Dot, "0">>,
      IfDescr \o <<Dot, "3">>, IfDescr \o <<Dot, "3", Dot, "4">>, IfDescr \o <<Dot>>,
      SysName("sysDescr") \o <<Dot, "5">>, IfNumber, CiscoCpu \o <<Dot, "1">>,
      <<"ifDescr", Dot, "3">>, <<Dot>> \o IfDescr \o <<Dot, "3">>, <<>>,
      Dotted(<<"1", "3", "6", "1", "2", "1", "1", "1", "0">>) }

\* the OIDs translate_oid is called with: registered ones, registered ones
\* followed by a suffix, an OID that only shares digits with registered
\* ones, OIDs above and beside the registered ones, the form with a leading
\* "." and the empty string
OidArgs ==
    { SysOid("1"), IfOid("2"), IfOid("1"),
      Dotted(<<"1", "3", "6", "1", "2", "1", "2", "1", "0">>),
      SysOid("1") \o <<Dot, "5">>, IfOid("2") \o <<Dot, "3", Dot, "4">>,
      IfOid("1") \o <<Dot, "0">>, IfOid("2") \o <<Dot>>,
      Dotted(<<"1", "3", "6", "1", "2", "1", "2", "2", "1", "100">>),
      Dotted(<<"1", "3", "6", "1", "2", "1", "2", "2", "1">>),
      Dotted(<<"1", "3", "6", "1", "4", "1", "9">>),
      <<Dot>> \o SysOid("1"), <<>> }

\* the MIB names get_mib_oids is called with
MibNameArgs == { <<"SNMPv2-MIB">>, <<"IF-MIB">>, <<"CISCO-MIB">>, <<"IF">>, <<>> }

\* the operations prepared
Operations ==
    { [oids |-> <<>>, mib_names |-> <<>>],
      [oids |-> <<>>, mib_names |-> <<<<"IF-MIB">>>>],
      [oids |-> <<SysName("sysDescr")>>, mib_names |-> <<<<"SNMPv2-MIB">>, <<"IF-MIB">>>>],
      [oids |-> <<>>, mib_names |-> <<<<"IF-MIB">>, <<"IF-MIB">>>>],
      [oids |-> <<SysName("sysDescr")>>, mib_names |-> <<<<"CISCO-MIB">>, <<"SNMPv2-MIB">>>>] }

\* the paths add_mib_file is called with
CiscoMibPath == <<"/", "tmp", "/", "CISCO-MIB", Dot, "mib">>
DottedMibPath == <<Dot, Dot, "/", "RFC1213", Dot, "MIB", Dot, "my">>
MibPaths == {CiscoMibPath, DottedMibPath}

\* the steps of the clock in one behaviour
MaxMibTicks == 1

MibInit ==
    /\ mib = MIBService
    /\ cache = <<>>
    /\ last_cleanup = 0
    /\ now = 0
    /\ cache_enabled \in BOOLEAN
    /\ cobs = NoObservations
    /\ rs = [RetryFrame EXCEPT !.status = "idle"]
    /\ ex = IdleFrame
    /\ req = <<>>
    /\ plog = <<>>

MibResolve ==
    /\ \E name \in NameArgs :
          mib' = [mib EXCEPT !.last = [NoCall EXCEPT !.op = "resolve_oid",
                                                     !.arg = name,
                                                     !.ret = resolve_oid(name)]]
    /\ UNCHANGED <<rs, ex, cache, last_cleanup, now, cache_enabled, cobs, req, plog>>

MibTranslate ==
    /\ \E oid \in OidArgs :
          mib' = [mib EXCEPT !.last = [NoCall EXCEPT !.op = "translate_oid",
                                                     !.arg = oid,
                                                     !.ret = translate_oid(oid)]]
    /\ UNCHANGED <<rs, ex, cache, last_cleanup, now, cache_enabled, cobs, req, plog>>

MibGetOids ==
    /\ \E mib_name \in MibNameArgs :
          LET g == get_mib_oids(mib_name, cache, last_cleanup, now, cache_enabled)
              got == get_cache(cache, last_cleanup, now, cache_enabled,
                               <<"mib_", "oids_">> \o mib_name)
          IN /\ mib' = [mib EXCEPT !.last = [NoCall EXCEPT !.op = "get_mib_oids",
                                                           !.names = <<mib_name>>,
                                                           !.oids = g.oids,
                                                           !.hit = got.ret # Absent]]
             /\ cache' = g.cache
             /\ last_cleanup' = g.last_cleanup
    /\ UNCHANGED <<rs, ex, now, cache_enabled, cobs, req, plog>>

\* SNMPService._prepare_oids on an operation
MibPrepare ==
    /\ \E operation \in Operations :
          LET p == prepare_oids(operation, cache, last_cleanup, now, cache_enabled)
          IN /\ mib' = [mib EXCEPT !.last = [NoCall EXCEPT !.op = "_prepare_oids",
                                                           !.names = operation.mib_names,
                                                           !.direct = operation.oids,
                                                           !.oids = p.oids]]
             /\ cache' = p.cache
             /\ last_cleanup' = p.last_cleanup
    /\ UNCHANGED <<rs, ex, now, cache_enabled, cobs, req, plog>>

MibAddFile ==
    /\ \E file_path \in MibPaths, on_disk \in OnDisk :
          LET a == add_mib_file(mib, file_path, on_disk)
          IN mib' = [a.mib EXCEPT !.last = [NoCall EXCEPT !.op = "add_mib_file",
                                                         !.arg = file_path,
                                                         !.on_disk = on_disk,
                                                         !.ok = a.ret]]
    /\ UNCHANGED <<rs, ex, cache, last_cleanup, now, cache_enabled, cobs, req, plog>>

\* the clock passes the TTL of a cached list
MibTick == TickOf({cache_ttl + 1}, MaxMibTicks)

\* the cache cleared by the prefix "mib_" or as a whole
MibClear ==
    /\ \E key_prefix \in {<<>>, <<"mib_">>} : cache' = clear_cache(cache, key_prefix)
    /\ UNCHANGED <<rs, ex, last_cleanup, now, cache_enabled, cobs, req, plog, mib>>

MibNext ==
    \/ MibResolve \/ MibTranslate \/ MibGetOids \/ MibPrepare \/ MibAddFile
    \/ MibTick \/ MibClear

SpecMib == MibInit /\ [][MibNext]_vars

(***************************************************************************)
(* Properties of the cache, checked under SpecCache.                       *)
(***************************************************************************)
\* the ttl a set call asked for: its argument, the default when it gave none
AskedTtl(ttl) == IF ttl = <<>> THEN cache_ttl ELSE ttl[1]

\* C2: with the cache enabled, a get of a key that was set and not set again
\* or cleared since returns the value set when at most ttl seconds have
\* passed since that set, and returns None and leaves the key out of the
\* store when more have passed; earlier gets do not move that limit.
C2_CacheTtl ==
    ( /\ cache_enabled
      /\ cobs.last.op = "get"
      /\ cobs.last.key \in DOMAIN cobs.given )
    => LET set == cobs.given[cobs.last.key]
       IN IF cobs.last.at - set.at <= AskedTtl(set.ttl)
          THEN cobs.last.ret = <<set.value>>
          ELSE cobs.last.ret = Absent /\ cobs.last.key \notin DOMAIN cache

(***************************************************************************)
(* The /query handler (app/api/main.py) and the requests in flight.        *)
(* client.chat.completions.create is a blocking call, so a request yields  *)
(* to the other requests only where the retry loop sleeps and where the    *)
(* executor awaits the agent; everything between two such points is one    *)
(* step.  A step works on a world: the request's own record, the cache     *)
(* with _last_cleanup and, for the properties, the responses stored so     *)
(* far.                                                                    *)
(***************************************************************************)
\* the requests received in one behaviour, the handlers running at once,
\* the create() calls that fail and the steps of the clock
MaxRequests == 3
MaxInFlight == 2
MaxFailures == 1
MaxWaits == 1

\* the text the model's clients send
Texts == {"describe 10.0.0.1"}

\* hash(query), as the decimal numeral the f-string prints
hash == [query \in Texts |-> "4781"]

\* f"query_{hash(query)}"
cache_key(query) == <<"query_", hash[query]>>

\* `not x` on an Optional[str]
Falsy(x) == x = Absent \/ x[1] = ""

IdleRequest ==
    [pc |-> "idle", query |-> "", skip_cache |-> FALSE,
     rs |-> [RetryFrame EXCEPT !.status = "idle"], ex |-> IdleFrame,
     status_code |-> 0, body |-> <<>>,
     \* for the properties: whether create() was called, the calls of
     \* process_query, execute_query and format_response, whether the body
     \* came from the cache, and the responses stored for the text and still
     \* within their TTL when the request looked
     called_model |-> FALSE, translations |-> 0, executions |-> 0, summaries |-> 0,
     cached |-> FALSE, promised |-> <<>>]

\* the create() calls and the sleeps of a frame are of no use to the handler
Forget(s) == [s EXCEPT !.outcomes = <<>>, !.delays = <<>>]

\* the create() call of a step is counted, and so is its failure
Called(w, s, out) ==
    [w EXCEPT !.r.rs = Forget(s),
              !.r.called_model = @ \/ s.attempts > w.r.rs.attempts,
              !.failed = IF s.attempts > w.r.rs.attempts /\ out.kind # "ok" THEN @ + 1 ELSE @]

\* the frame of a call that has returned is gone
Popped(w) == [w EXCEPT !.r.rs = IdleRequest.rs]

\* the handler returns, or raises HTTPException(status_code)
Respond(w, status_code, body) ==
    [w EXCEPT !.r.pc = "done", !.r.status_code = status_code, !.r.body = body]

\* for the properties: the responses stored for a text, oldest first.  Of
\* the responses stored before the latest one, only the last that differs
\* from the latest is kept.
Stored(log, response, t) ==
    LET entry == [response |-> response, at |-> t]
    IN  IF log = <<>> THEN <<entry>>
        ELSE IF log[Len(log)].response # response THEN <<log[Len(log)], entry>>
        ELSE IF Len(log) = 2 THEN <<log[1], entry>>
        ELSE <<entry>>

\* the handler keeping the response another request has stored meanwhile:
\* it stores its own only when the key is not in the store
StoreAndReturn_FirstWins(w, formatted_response, t, enabled) ==
    LET key == cache_key(w.r.query)
        stored ==
            IF ~w.r.skip_cache /\ Falsy(formatted_response.error) /\ key \notin DOMAIN w.cache
            THEN [w EXCEPT
                     !.cache = set_cache(@, t, enabled, key, formatted_response, <<>>),
                     !.live = IF enabled
                              THEN [@ EXCEPT ![w.r.query] =
                                       Stored(@, formatted_response, t)]
                              ELSE @]
            ELSE w
    IN  Respond(stored, 200, <<formatted_response>>)

\* the handler storing what it returns whether or not it carries an error
StoreAndReturn_WithError(w, formatted_response, t, enabled) ==
    LET key == cache_key(w.r.query)
        stored ==
            IF ~w.r.skip_cache
            THEN [w EXCEPT
                     !.cache = set_cache(@, t, enabled, key, formatted_response, <<>>),
                     !.live = IF enabled
                              THEN [@ EXCEPT ![w.r.query] =
                                       Stored(@, formatted_response, t)]
                              ELSE @]
            ELSE w
    IN  Respond(stored, 200, <<formatted_response>>)

\* process_query from `# Cache response` on: formatted_response.dict() is
\* stored unless skip_cache is set or the response carries an error
StoreAndReturn(w, formatted_response, t, enabled) ==
    LET key == cache_key(w.r.query)
        stored ==
            IF ~w.r.skip_cache /\ Falsy(formatted_response.error)
            THEN [w EXCEPT
                     !.cache = set_cache(@, t, enabled, key, formatted_response, <<>>),
                     !.live = IF enabled
                              THEN [@ EXCEPT ![w.r.query] =
                                       Stored(@, formatted_response, t)]
                              ELSE @]
            ELSE w
    IN  Respond(stored, 200, <<formatted_response>>)

\* one create() call of the summarizer and, when the retry loop returns with
\* it, the rest of the handler
Summarize(w, out, t, enabled) ==
    LET s == llm_call(w.r.rs, out, 0)
        w1 == Called(w, s, out)
    IN  IF s.status # "returned" THEN [w1 EXCEPT !.r.pc = "summarize_sleep"]
        ELSE StoreAndReturn(w1, s.value[1], t, enabled)

\* the handler calling the summarizer whatever the result map holds
AfterExecute_AlwaysSummarize(w, out, t, enabled) ==
    Summarize([w EXCEPT !.r.rs = SummarizeFrame(w.r.ex.result, w.r.query),
                        !.r.summaries = @ + 1],
              out, t, enabled)

\* process_query from `# Format response` on, the executor having returned
AfterExecute(w, out, t, enabled) ==
    LET snmp_response_data == w.r.ex.result
    IN  IF ErrorKey \in DOMAIN snmp_response_data
        THEN StoreAndReturn(w,
                 SNMPResponse(snmp_response_data,
                              "Error: " \o snmp_response_data[ErrorKey].str,
                              w.r.query,
                              Some(snmp_response_data[ErrorKey].str)),
                 t, enabled)
        ELSE Summarize([w EXCEPT !.r.rs = SummarizeFrame(snmp_response_data, w.r.query),
                                 !.r.summaries = @ + 1],
                       out, t, enabled)

\* process_query from `# Store original query` on: the executor runs up to
\* its first protocol call, or returns at once
Execute(w, snmp_query, client_ok, out, t, enabled) ==
    LET query == Attached(snmp_query, w.r.query)
        p == prepare_oids(query.operation, w.cache, w.last_cleanup, t, enabled)
        f == execute_query(query, p, client_ok)
        w1 == [w EXCEPT !.r.ex = f, !.r.executions = @ + 1,
                        !.cache = p.cache, !.last_cleanup = p.last_cleanup]
    IN  IF f.pc = "done" THEN AfterExecute(w1, out, t, enabled)
        ELSE [w1 EXCEPT !.r.pc = "snmp"]

\* one create() call of the translator and, when the retry loop returns with
\* it, the rest of the handler up to the next point where it yields.  An
\* HTTPException(400) raised inside the try is caught by its own except
\* clause and leaves as a 500.
Translate(w, out, client_ok, t, enabled) ==
    LET s == llm_call(w.r.rs, out, 0)
        w1 == Called(w, s, out)
    IN  IF s.status # "returned" THEN [w1 EXCEPT !.r.pc = "translate_sleep"]
        ELSE IF s.value[1] = Absent THEN Respond(w1, 500, <<>>)
        ELSE Execute(Popped(w1), s.value[1][1], client_ok, out, t, enabled)

\* for the properties: the responses stored for the text that a lookup at
\* time t finds within their TTL, oldest first
Promised(live, query, skip_cache, t, enabled) ==
    IF skip_cache \/ ~enabled THEN <<>>
    ELSE LET within == SelectSeq(live[query], LAMBDA e : t - e.at <= cache_ttl)
         IN [i \in 1..Len(within) |-> within[i].response]

\* process_query of app/api/main.py, from its entry to the first point where
\* it yields
main_process_query(w, query, skip_cache, out, client_ok, t, enabled) ==
    LET entered == [w EXCEPT !.r.query = query, !.r.skip_cache = skip_cache,
                             !.r.promised = Promised(w.live, query, skip_cache, t, enabled)]
        got == get_cache(w.cache, w.last_cleanup, t, enabled, cache_key(query))
        looked == [entered EXCEPT !.cache = got.cache, !.last_cleanup = got.last_cleanup]
        missed == IF skip_cache THEN entered ELSE looked
    IN  IF ~skip_cache /\ got.ret # Absent
        THEN Respond([looked EXCEPT !.r.cached = TRUE], 200, got.ret)
        ELSE Translate([missed EXCEPT !.r.rs = TranslateFrame, !.r.translations = @ + 1],
                       out, client_ok, t, enabled)

\* the dispatch of execute_query: the loop of the command's method
execute_step(f, reply) ==
    IF f.command = "GET" THEN execute_get(f, reply)
    ELSE IF f.command = "GETNEXT" THEN execute_getnext(f, reply)
    ELSE IF f.command = "WALK" THEN execute_walk(f, reply)
    ELSE execute_bulk(f, reply)

\* the agent's reply to the pending protocol call arrives
OnReply(w, reply, out, t, enabled) ==
    LET w1 == [w EXCEPT !.r.ex = execute_step(@, reply)]
    IN  IF w1.r.ex.pc = "done" THEN AfterExecute(w1, out, t, enabled) ELSE w1

\* asyncio.sleep is over: the retry loop goes round again
OnWake(w, out, client_ok, t, enabled) ==
    IF w.r.pc = "translate_sleep" THEN Translate(w, out, client_ok, t, enabled)
    ELSE Summarize(w, out, t, enabled)

(***************************************************************************)
(* Spec: MaxRequests /query requests, up to MaxInFlight of them in flight  *)
(* at once, with /clear-cache calls and the clock advancing between their  *)
(* steps.                                                                  *)
(***************************************************************************)
\* {"target": {"host": "10.0.0.1"}, "credentials": {"version": "3"}, ...}
SysDescrV3Json ==
    JObj([k \in {"target", "credentials", "operation"} |->
        IF k = "credentials" THEN JObj([f \in {"version"} |-> JStr("3")])
        ELSE SysDescrJson.o[k]])

TranslateOutcomes ==
    {Completion(Content("{...}", <<SysDescrJson>>)),
     Completion(Content("{... 3 ...}", <<SysDescrV3Json>>)),
     Completion(Content("not json", <<>>)),
     Raises("RateLimitError", 429)}

SummaryOutcomes ==
    {Completion(Content("It is a Linux box.", <<>>)),
     Completion(Content("", <<>>)),
     Raises("RateLimitError", 429),
     Raises("APIError", 400)}

\* the outcomes a create() call may have now: at most MaxFailures calls fail
\* in one behaviour
Allowed(outcomes) ==
    IF plog.failures < MaxFailures THEN outcomes
    ELSE {out \in outcomes : out.kind = "ok"}

AgentReplies ==
    {Reply(<<Pair(<<>>, VBytes(LinuxBox))>>, <<>>),
     Reply(<<>>, <<TimedOut>>)}

\* What the properties of the handler need to remember: the requests
\* received and the failed create() calls so far, the clock steps, the
\* responses stored for each text since the last clear that touched its key,
\* and the request whose handler has just returned (<<>> when the last step
\* returned none).
NoLog ==
    [live |-> [query \in Texts |-> <<>>], received |-> 0, failures |-> 0, ticks |-> 0,
     last |-> <<>>]

World(r) ==
    [r |-> req[r], cache |-> cache, last_cleanup |-> last_cleanup, live |-> plog.live,
     failed |-> 0]

\* the step of request r ends: a handler that has returned frees its slot
Commit(r, w, arrivals) ==
    /\ req' = [req EXCEPT ![r] = IF w.r.pc = "done" THEN IdleRequest ELSE w.r]
    /\ cache' = w.cache
    /\ last_cleanup' = w.last_cleanup
    /\ plog' = [plog EXCEPT
                   !.live = w.live,
                   !.received = @ + arrivals,
                   !.failures = @ + w.failed,
                   !.last = IF w.r.pc = "done" THEN <<w.r>> ELSE <<>>]

Init ==
    /\ req = [r \in 1..MaxInFlight |-> IdleRequest]
    /\ plog = NoLog
    /\ mib = MIBService
    /\ cache = <<>>
    /\ last_cleanup = 0
    /\ now = 0
    /\ cache_enabled = TRUE
    /\ cobs = NoObservations
    /\ rs = [RetryFrame EXCEPT !.status = "idle"]
    /\ ex = IdleFrame

\* POST /query arrives and takes the first free slot
Receive(r) ==
    /\ plog.received < MaxRequests
    /\ req[r].pc = "idle"
    /\ \A q \in 1..(r - 1) : req[q].pc # "idle"
    /\ \E query \in Texts, skip_cache \in BOOLEAN, out \in Allowed(TranslateOutcomes) :
          Commit(r, main_process_query(World(r), query, skip_cache, out, TRUE,
                                       now, cache_enabled), 1)
    /\ UNCHANGED <<rs, ex, now, cache_enabled, cobs, mib>>

Wake(r) ==
    /\ req[r].pc \in {"translate_sleep", "summarize_sleep"}
    /\ \E out \in Allowed(IF req[r].pc = "translate_sleep" THEN TranslateOutcomes
                          ELSE SummaryOutcomes) :
          Commit(r, OnWake(World(r), out, TRUE, now, cache_enabled), 0)
    /\ UNCHANGED <<rs, ex, now, cache_enabled, cobs, mib>>

SnmpReply(r) ==
    /\ req[r].pc = "snmp"
    /\ \E reply \in AgentReplies, out \in Allowed(SummaryOutcomes) :
          Commit(r, OnReply(World(r), reply, out, now, cache_enabled), 0)
    /\ UNCHANGED <<rs, ex, now, cache_enabled, cobs, mib>>

\* POST /clear-cache
clear_application_cache ==
    /\ \E prefix \in Prefixes :
          /\ cache' = clear_cache(cache, prefix)
          /\ plog' = [plog EXCEPT
                         !.last = <<>>,
                         !.live = [query \in Texts |->
                                      IF prefix = <<>> \/ startswith(cache_key(query), prefix)
                                      THEN <<>> ELSE @[query]]]
    /\ UNCHANGED <<rs, ex, req, last_cleanup, now, cache_enabled, cobs, mib>>

\* the seconds the clock advances by between two steps of the handlers: to
\* the end of a TTL, and past it
Waits == {cache_ttl, cache_ttl + 1}

Elapse ==
    /\ plog.ticks < MaxWaits
    /\ \E d \in Waits : now' = now + d
    /\ plog' = [plog EXCEPT !.ticks = @ + 1, !.last = <<>>]
    /\ UNCHANGED <<rs, ex, req, cache, last_cleanup, cache_enabled, cobs, mib>>

Next ==
    \/ \E r \in 1..MaxInFlight : Receive(r)
    \/ \E r \in 1..MaxInFlight : Wake(r)
    \/ \E r \in 1..MaxInFlight : SnmpReply(r)
    \/ clear_application_cache
    \/ Elapse

Spec == Init /\ [][Next]_vars

(***************************************************************************)
(* The command-line pipeline (process_query of app/cli.py): the same three *)
(* calls in the same order, without the cache, returning a dict.           *)
(***************************************************************************)
\* {"error": message}
ErrorOnly(message) == [error |-> message]

\* process_query of app/cli.py returns result
CliReturn(w, result) == [w EXCEPT !.r.pc = "done", !.r.body = <<result>>]

\* one create() call of the summarizer and, when the retry loop returns
\* with it, `return formatted_response.dict()`
CliSummarize(w, out) ==
    LET s == llm_call(w.r.rs, out, 0)
        w1 == Called(w, s, out)
    IN  IF s.status # "returned" THEN [w1 EXCEPT !.r.pc = "cli_summarize_sleep"]
        ELSE CliReturn(w1, s.value[1])

\* process_query of app/cli.py from `# Format response` on
CliAfterExecute(w, out) ==
    LET snmp_response_data == w.r.ex.result
    IN  IF ErrorKey \in DOMAIN snmp_response_data
        THEN CliReturn(w, ErrorOnly(snmp_response_data[ErrorKey].str))
        ELSE CliSummarize([w EXCEPT !.r.rs = SummarizeFrame(snmp_response_data, w.r.query),
                                    !.r.summaries = @ + 1],
                          out)

\* process_query of app/cli.py from `# Store original query` on
CliExecute(w, snmp_query, client_ok, out, t, enabled) ==
    LET query == Attached(snmp_query, w.r.query)
        p == prepare_oids(query.operation, w.cache, w.last_cleanup, t, enabled)
        f == execute_query(query, p, client_ok)
        w1 == [w EXCEPT !.r.ex = f, !.r.executions = @ + 1,
                        !.cache = p.cache, !.last_cleanup = p.last_cleanup]
    IN  IF f.pc = "done" THEN CliAfterExecute(w1, out)
        ELSE [w1 EXCEPT !.r.pc = "cli_snmp"]

\* one create() call of the translator and, when the retry loop returns
\* with it, the rest of the function up to the next point where it yields
CliTranslate(w, out, client_ok, t, enabled) ==
    LET s == llm_call(w.r.rs, out, 0)
        w1 == Called(w, s, out)
    IN  IF s.status # "returned" THEN [w1 EXCEPT !.r.pc = "cli_translate_sleep"]
        ELSE IF s.value[1] = Absent THEN CliReturn(w1, ErrorOnly("Failed to parse query"))
        ELSE CliExecute(Popped(w1), s.value[1][1], client_ok, out, t, enabled)

\* process_query of app/cli.py, from its entry to the first point where it
\* yields
cli_process_query(w, query, out, client_ok, t, enabled) ==
    CliTranslate([w EXCEPT !.r.query = query, !.r.skip_cache = TRUE,
                           !.r.rs = TranslateFrame, !.r.translations = @ + 1],
                 out, client_ok, t, enabled)

CliOnReply(w, reply, out) ==
    LET w1 == [w EXCEPT !.r.ex = execute_step(@, reply)]
    IN  IF w1.r.ex.pc = "done" THEN CliAfterExecute(w1, out) ELSE w1

CliOnWake(w, out, client_ok, t, enabled) ==
    IF w.r.pc = "cli_translate_sleep" THEN CliTranslate(w, out, client_ok, t, enabled)
    ELSE CliSummarize(w, out)

(***************************************************************************)
(* SpecPipelines: MaxRequests queries one after the other, each through    *)
(* the /query handler or through the command line.                         *)
(***************************************************************************)
ApiReceive == Receive(1)
ApiWake == Wake(1)
ApiReply == SnmpReply(1)

CliReceive ==
    /\ plog.received < MaxRequests
    /\ req[1].pc = "idle"
    /\ \E query \in Texts, out \in Allowed(TranslateOutcomes) :
          Commit(1, cli_process_query(World(1), query, out, TRUE, now, cache_enabled), 1)
    /\ UNCHANGED <<rs, ex, now, cache_enabled, cobs, mib>>

CliWake ==
    /\ req[1].pc \in {"cli_translate_sleep", "cli_summarize_sleep"}
    /\ \E out \in Allowed(IF req[1].pc = "cli_translate_sleep" THEN TranslateOutcomes
                           ELSE SummaryOutcomes) :
          Commit(1, CliOnWake(World(1), out, TRUE, now, cache_enabled), 0)
    /\ UNCHANGED <<rs, ex, now, cache_enabled, cobs, mib>>

CliReply ==
    /\ req[1].pc = "cli_snmp"
    /\ \E reply \in AgentReplies, out \in Allowed(SummaryOutcomes) :
          Commit(1, CliOnReply(World(1), reply, out), 0)
    /\ UNCHANGED <<rs, ex, now, cache_enabled, cobs, mib>>

PipelinesNext ==
    ApiReceive \/ ApiWake \/ ApiReply \/ CliReceive \/ CliWake \/ CliReply

SpecPipelines == Init /\ [][PipelinesNext]_vars

(***************************************************************************)
(* Properties of the /query handler, checked under Spec.                   *)
(***************************************************************************)
\* the requests in flight and, after them, the one whose handler has just
\* returned
Seen == 1..(MaxInFlight + Len(plog.last))
Request(i) == IF i <= MaxInFlight THEN req[i] ELSE plog.last[1]

\* the query of the end-to-end scenario, as the handler passes it on
SysDescrQuery(text) ==
    [Query("10.0.0.1", "2c", <<>>, "GET", <<DottedSysDescr>>, <<>>)
        EXCEPT !.raw_query = Some(text)]

LinuxBoxReply == Reply(<<Pair(<<>>, VBytes(LinuxBox))>>, <<>>)

FallbackSummaries ==
    {"Unable to generate summary due to API error.",
     "Unable to generate summary due to an unexpected error."}

\* the request runs the scenario's query, and the agent has answered
Answered(r) == r.ex.query = <<SysDescrQuery(r.query)>> /\ r.ex.trace # <<>>

\* the executor's part of the scenario: one get, for the OID without its
\* leading dot; and on the value b"Linux box" the result map, the call of
\* the summarizer with it, and a response without error
ScenarioUpToSummary(r) ==
    /\ r.ex.query = <<SysDescrQuery(r.query)>> => r.ex.oids = <<SysOid("1")>>
    /\ Answered(r) =>
          /\ Len(r.ex.calls) = 1
          /\ r.ex.calls[1].op = "get"
          /\ r.ex.calls[1].oid = SysOid("1")
    /\ Answered(r) /\ r.ex.trace[1].reply = LinuxBoxReply =>
          /\ r.ex.result = SysDescrResult
          /\ r.summaries = 1
          /\ r.rs.caller = "format_response"
          /\ r.rs.args = [snmp_response |-> SysDescrResult, original_query |-> r.query]
          /\ r.pc = "done" =>
                /\ r.status_code = 200
                /\ r.body[1].raw_data = SysDescrResult
                /\ r.body[1].query = r.query
                /\ r.body[1].error = Absent

ScenarioDone(r) == Answered(r) /\ r.ex.trace[1].reply = LinuxBoxReply /\ r.pc = "done"

\* C1: in the end-to-end scenario the executor issues exactly one get, for
\* 1.3.6.1.2.1.1.1.0; on the value b"Linux box" the result map is exactly
\* {"SNMPv2-MIB::sysDescr.0": "Linux box"}, the summarizer is called once
\* with that map, and the response has no error; its summary is the text of
\* the model's completion as it is, empty when that text is empty, and one
\* of the fixed fallback texts when the summarizer's call fails.
C1_EndToEnd ==
    \A n \in Seen : LET r == Request(n) IN
        /\ ScenarioUpToSummary(r)
        /\ ScenarioDone(r) =>
              IF r.rs.result = Absent \/ r.rs.result[1].content = Absent
              THEN r.body[1].summary \in FallbackSummaries
              ELSE r.body[1].summary = r.rs.result[1].content[1].text

\* C1 as stated: the same, with a summary that is never empty.
C1_AsStated ==
    \A n \in Seen : LET r == Request(n) IN
        /\ ScenarioUpToSummary(r)
        /\ ScenarioDone(r) => r.body[1].summary # ""

C1_Witness ==
    \E n \in Seen : LET r == Request(n) IN
        /\ ScenarioDone(r)
        /\ ~r.cached
        /\ Len(r.ex.calls) = 1
        /\ r.body = <<SNMPResponse(SysDescrResult, "It is a Linux box.", r.query, Absent)>>

\* the request made no call of the language model and none of the agent
NoCalls(r) ==
    /\ ~r.called_model
    /\ r.translations = 0
    /\ r.executions = 0
    /\ r.summaries = 0
    /\ r.ex.calls = <<>>

\* C3: with the cache enabled and skip_cache false, a request for a text
\* that starts when a response stored for that text is within its TTL, no
\* clear having touched it, returns at once the response stored last for the
\* text, and calls neither the language model nor the agent.
C3_CacheInFront ==
    /\ \A r \in 1..MaxInFlight : req[r].promised = <<>>
    /\ \A n \in Seen : LET r == Request(n) IN
          r.promised # <<>> =>
              /\ r.pc = "done"
              /\ r.status_code = 200
              /\ r.body = <<r.promised[Len(r.promised)]>>
              /\ NoCalls(r)

\* C3 as stated: the request returns the response of every earlier request
\* for the text that stored one within the TTL, the first as well as the last.
C3_AsStated ==
    \A n \in Seen : LET r == Request(n) IN
        \A i \in 1..Len(r.promised) :
            /\ r.pc = "done"
            /\ r.body = <<r.promised[i]>>
            /\ NoCalls(r)

\* a hit at the very end of the TTL
C3_Witness ==
    \E n \in Seen : LET r == Request(n) IN
        /\ r.pc = "done"
        /\ r.cached
        /\ r.promised # <<>>
        /\ r.body = <<r.promised[Len(r.promised)]>>
        /\ now = cache_ttl
        /\ NoCalls(r)

(***************************************************************************)
(* Properties of the translator in the handler, checked under              *)
(* SpecTranslate.                                                          *)
(***************************************************************************)
\* how the call of the model by process_query ended
ModelGaveUp == rs.status = "returned" /\ rs.result = Absent
Answer == rs.result[1].content
AnswerNotJson ==
    /\ rs.status = "returned" /\ rs.result # Absent
    /\ (Answer = Absent \/ Answer[1].json = Absent)
AnswerJson ==
    /\ rs.status = "returned" /\ rs.result # Absent
    /\ Answer # Absent /\ Answer[1].json # Absent

\* C16: when the retry loop has given up on the model, or the text of the
\* completion is not JSON, or its JSON does not validate as an SNMPQuery (a
\* required field missing, a value of the wrong type), process_query has
\* returned None and execute_query is not called for the request.
C16_TranslationErrors ==
    ( /\ rs.caller = "process_query"
      /\ \/ ModelGaveUp
         \/ AnswerNotJson
         \/ AnswerJson /\ Answer[1].json[1] \in InvalidJsons )
    => /\ rs.value = <<Absent>>
       /\ ex = IdleFrame

\* the model reached at the third attempt, its JSON without target.host
C16_Witness ==
    /\ rs.caller = "process_query"
    /\ rs.attempts = 3
    /\ AnswerJson
    /\ Answer[1].json[1] = MissingHostJson
    /\ rs.value = <<Absent>>
    /\ ex = IdleFrame

C17_SummaryOrFallback ==
    (rs.caller = "format_response" /\ rs.status = "returned") =>
        LET response == rs.value[1]
        IN  /\ response.raw_data = rs.args.snmp_response
            /\ response.query = rs.args.original_query
            /\ response.error = Absent
            /\ IF rs.result # Absent /\ Answer # Absent
               THEN response.summary = Answer[1].text
               ELSE response.summary \in FallbackSummaries

\* four rate-limit errors, and the summary is the fallback text
C17_Witness ==
    /\ rs.caller = "format_response"
    /\ rs.status = "returned"
    /\ rs.attempts = 4
    /\ rs.result = Absent
    /\ rs.value[1] = SNMPResponse(SysDescrResult,
                                  "Unable to generate summary due to API error.",
                                  "what is it", Absent)

\* the query process_query has returned
Translated == rs.caller = "process_query" /\ rs.status = "returned" /\ rs.value # <<Absent>>
TheQuery == rs.value[1][1]

\* C18: every query process_query returns has a non-empty target.host, a
\* command that is GET, GETNEXT, WALK or BULK (in any letter case), and an
\* OID or a MIB name to work on.
C18_QueryInvariants ==
    Translated =>
        /\ TheQuery.target.host # ""
        /\ upper(TheQuery.operation.command) \in {"GET", "GETNEXT", "WALK", "BULK"}
        /\ TheQuery.operation.oids # <<>> \/ TheQuery.operation.mib_names # <<>>

\* the strings of a JSON list of strings
Strings(list) == [i \in 1..Len(list.items) |-> list.items[i].s]

\* C20: of a JSON object the models accept, process_query returns the query
\* read directly from it when it has the keys "target" and "operation",
\* with host, port, command and oids as the JSON gives them (an OID keeps
\* its leading dot); otherwise the query adapted from the other shape:
\* target_ip is the host, port, timeout and retries default to 161, 5 and 3,
\* snmp_version is the version and defaults to "2c", community_string is
\* the community and defaults to "public", operation is the command and
\* defaults to "GET", and oids is the one OID oid, "1.3.6.1.2.1.1.1.0" by
\* default.
C20_ShapeSelection ==
    (rs.caller = "process_query" /\ AnswerJson /\ Answer[1].json[1] \in ValidJsons) =>
        LET raw == Answer[1].json[1].o
        IN  /\ Translated
            /\ IF "target" \in DOMAIN raw /\ "operation" \in DOMAIN raw
               THEN /\ TheQuery.target.host = raw["target"].o["host"].s
                    /\ TheQuery.target.port = Get(raw["target"].o, "port", JInt(161)).n
                    /\ TheQuery.operation.command = raw["operation"].o["command"].s
                    /\ TheQuery.operation.oids =
                           Strings(Get(raw["operation"].o, "oids", JList(<<>>)))
               ELSE /\ TheQuery.target.host = Get(raw, "target_ip", JStr("")).s
                    /\ TheQuery.target.port = Get(raw, "port", JInt(161)).n
                    /\ TheQuery.target.timeout = Get(raw, "timeout", JInt(5)).n
                    /\ TheQuery.target.retries = Get(raw, "retries", JInt(3)).n
                    /\ TheQuery.credentials.version = Get(raw, "snmp_version", JStr("2c")).s
                    /\ TheQuery.credentials.community =
                           Some(Get(raw, "community_string", JStr("public")).s)
                    /\ TheQuery.operation.command = Get(raw, "operation", JStr("GET")).s
                    /\ TheQuery.operation.oids = <<Get(raw, "oid", JStr(SysOid("1"))).s>>

\* {"target_ip": "10.0.0.1", "operation": "getnext"} adapted, the rest by default
C20_Witness ==
    /\ Translated
    /\ Answer[1].json[1] = LegacyGetNextJson
    /\ TheQuery.target = [host |-> "10.0.0.1", port |-> 161, timeout |-> 5, retries |-> 3]
    /\ TheQuery.credentials = [version |-> "2c", community |-> Some("public")]
    /\ TheQuery.operation.command = "getnext"
    /\ TheQuery.operation.oids = <<SysOid("1")>>

(***************************************************************************)
(* Properties of the name registry, checked under SpecMib.                 *)
(***************************************************************************)
\* the built-in names and their OIDs
BuiltIn == {<<name_oid_cache[i][1], name_oid_cache[i][2]>> : i \in 1..Len(name_oid_cache)}
BuiltInNames == {e[1] : e \in BuiltIn}
BuiltInOids == {e[2] : e \in BuiltIn}

\* the pairs a dict holds
Pairs(d) == {<<d[i][1], d[i][2]>> : i \in 1..Len(d)}

\* C21: whatever calls were made, resolve_oid gives every built-in name its
\* OID and translate_oid gives that OID the name back, the two maps hold
\* one entry per key and are each other's inverse, and a call that was made
\* with a built-in name or OID has returned accordingly.
C21_RoundTrip ==
    /\ \A e \in BuiltIn : resolve_oid(e[1]) = e[2] /\ translate_oid(e[2]) = e[1]
    /\ Pairs(mib.oid_name_cache) = {<<e[2], e[1]>> : e \in Pairs(mib.name_oid_cache)}
    /\ Cardinality(Pairs(mib.name_oid_cache)) = Len(mib.name_oid_cache)
    /\ Cardinality({e[1] : e \in Pairs(mib.name_oid_cache)}) = Len(mib.name_oid_cache)
    /\ Cardinality({e[2] : e \in Pairs(mib.name_oid_cache)}) = Len(mib.name_oid_cache)
    /\ Len(mib.oid_name_cache) = Len(mib.name_oid_cache)
    /\ \A e \in BuiltIn :
          /\ (mib.last.op = "resolve_oid" /\ mib.last.arg = e[1]) => mib.last.ret = e[2]
          /\ (mib.last.op = "translate_oid" /\ mib.last.arg = e[2]) => mib.last.ret = e[1]

\* translate_oid has given sysDescr's OID its name after a MIB file was
\* added and a list of OIDs was cached
C21_Witness ==
    /\ mib.last.op = "translate_oid"
    /\ mib.last.arg = SysOid("1")
    /\ mib.last.ret = SysName("sysDescr")
    /\ <<"CISCO-MIB">> \in mib.loaded_mibs
    /\ cache # <<>>

\* the built-in names that hold no "."
Columnar == {n \in BuiltInNames : \A i \in 1..Len(n) : n[i] # Dot}

\* the OID _init_basic_mibs lists for a built-in name
OidOf(n) == (CHOOSE e \in BuiltIn : e[1] = n)[2]

\* index strings: one part, two parts, one that starts with a "."
Indexes == {<<"3">>, <<"0">>, <<"3", Dot, "4">>, <<Dot, "3">>}

\* a name that is not registered and either begins with "." or has a text
\* before its first "." (the whole name when it has none) that is not
\* registered
Unresolvable(name) ==
    /\ name \notin BuiltInNames
    /\ startswith(name, <<Dot>>) \/ SplitDotFirst(name) \notin BuiltInNames

\* C22: a built-in name without "." followed by "." and a non-empty index
\* resolves to the name's OID followed by "." and that index; a name that
\* is not registered, and whose text before its first "." is not registered
\* or which begins with ".", resolves to None.  Both hold of the function in
\* every state and of the call that was made last.
C22_IndexSuffix ==
    /\ \A B \in Columnar, i \in Indexes :
          /\ resolve_oid(B) = OidOf(B)
          /\ resolve_oid(B \o <<Dot>> \o i) = OidOf(B) \o <<Dot>> \o i
    /\ \A name \in NameArgs : Unresolvable(name) => resolve_oid(name) = None
    /\ mib.last.op = "resolve_oid" =>
          /\ \A B \in Columnar :
                ( /\ Len(mib.last.arg) > Len(B) + 1
                  /\ startswith(mib.last.arg, B \o <<Dot>>) )
                => mib.last.ret = OidOf(B) \o SliceFrom(mib.last.arg, Len(B))
          /\ Unresolvable(mib.last.arg) => mib.last.ret = None

\* IF-MIB::ifDescr.3.4 has resolved to ifDescr's OID followed by .3.4
C22_Witness ==
    /\ mib.last.op = "resolve_oid"
    /\ mib.last.arg = IfDescr \o <<Dot, "3", Dot, "4">>
    /\ mib.last.ret = IfOid("2") \o <<Dot, "3", Dot, "4">>

\* SNMPv2-MIB::sysDescr.0.5, whose text before the first "." is not
\* registered, has resolved to None
C22_WitnessAbsent ==
    /\ mib.last.op = "resolve_oid"
    /\ mib.last.arg = SysName("sysDescr") \o <<Dot, "5">>
    /\ mib.last.ret = None

\* a built-in name without the ".0" it ends with, if it ends with one
Stripped(n) ==
    IF Len(n) > 2 /\ n[Len(n) - 1] = Dot /\ n[Len(n)] = "0"
    THEN SubSeq(n, 1, Len(n) - 2)
    ELSE n

\* the text after a registered OID and its "."
Suffixes == {<<"5">>, <<"0">>, <<"3", Dot, "4">>}

\* an OID that is not registered and that no registered OID followed by "."
\* begins
NoRegisteredPrefix(oid) ==
    /\ oid \notin BuiltInOids
    /\ \A K \in BuiltInOids : ~startswith(oid, K \o <<Dot>>)

\* C23: an OID that is not registered and is a registered OID K, of name N,
\* followed by "." and a suffix translates to N without its own index,
\* followed by "." and that suffix; an OID that is not registered and has no
\* registered OID with a "." as its beginning translates to None.  Both
\* hold of the function in every state and of the call that was made last.
C23_PrefixTranslation ==
    /\ \A e \in BuiltIn, sfx \in Suffixes :
          (e[2] \o <<Dot>> \o sfx) \notin BuiltInOids
          => translate_oid(e[2] \o <<Dot>> \o sfx) = Stripped(e[1]) \o <<Dot>> \o sfx
    /\ \A oid \in OidArgs : NoRegisteredPrefix(oid) => translate_oid(oid) = None
    /\ mib.last.op = "translate_oid" =>
          /\ \A e \in BuiltIn :
                ( /\ mib.last.arg \notin BuiltInOids
                  /\ startswith(mib.last.arg, e[2] \o <<Dot>>) )
                => mib.last.ret = Stripped(e[1]) \o SliceFrom(mib.last.arg, Len(e[2]))
          /\ NoRegisteredPrefix(mib.last.arg) => mib.last.ret = None

\* 1.3.6.1.2.1.1.1.0.5 has translated to SNMPv2-MIB::sysDescr.5
C23_Witness ==
    /\ mib.last.op = "translate_oid"
    /\ mib.last.arg = SysOid("1") \o <<Dot, "5">>
    /\ mib.last.ret = <<"SNMPv2-MIB", "::", "sysDescr", Dot, "5">>

\* 1.3.6.1.2.1.2.2.1.100, which only shares digits with registered OIDs,
\* has translated to None
C23_WitnessAbsent ==
    /\ mib.last.op = "translate_oid"
    /\ mib.last.arg = Dotted(<<"1", "3", "6", "1", "2", "1", "2", "2", "1", "100">>)
    /\ mib.last.ret = None

\* the OIDs of the built-in names that begin with mib_name and "::"
MibOids(mib_name) == {e[2] : e \in {b \in BuiltIn : startswith(b[1], mib_name \o <<"::">>)}}

\* a list that holds each OID of the set once and nothing else
ListsExactly(list, set) ==
    /\ {list[i] : i \in 1..Len(list)} = set
    /\ Len(list) = Cardinality(set)

RECURSIVE AllAppended(_, _)
\* the list is, MIB name by MIB name, the OIDs of that MIB
AllAppended(mib_names, list) ==
    IF mib_names = <<>> THEN list = <<>>
    ELSE LET n == Cardinality(MibOids(Head(mib_names)))
         IN /\ Len(list) >= n
            /\ ListsExactly(SubSeq(list, 1, n), MibOids(Head(mib_names)))
            /\ AllAppended(Tail(mib_names), SubSeq(list, n + 1, Len(list)))

\* C24: get_mib_oids returns each OID of the built-in names that begin with
\* the MIB name and "::" once and nothing else, which is 7 OIDs for
\* SNMPv2-MIB, 11 for IF-MIB and none for another name, whether the list
\* comes from the cache or not; and _prepare_oids puts after the OIDs of
\* operation.oids, for each entry of operation.mib_names in turn, all the
\* OIDs of that MIB.
C24_MibOids ==
    /\ Cardinality(MibOids(<<"SNMPv2-MIB">>)) = 7
    /\ Cardinality(MibOids(<<"IF-MIB">>)) = 11
    /\ \A mib_name \in MibNameArgs \ {<<"SNMPv2-MIB">>, <<"IF-MIB">>} : MibOids(mib_name) = {}
    /\ mib.last.op = "get_mib_oids" =>
          ListsExactly(mib.last.oids, MibOids(mib.last.names[1]))
    /\ mib.last.op = "_prepare_oids" =>
          /\ Len(mib.last.oids) >= Len(mib.last.direct)
          /\ \A i \in 1..Len(mib.last.direct) :
                mib.last.oids[i] = OidOf(mib.last.direct[i])
          /\ AllAppended(mib.last.names,
                         SubSeq(mib.last.oids, Len(mib.last.direct) + 1, Len(mib.last.oids)))

\* _prepare_oids has returned sysDescr's OID, the 7 OIDs of SNMPv2-MIB and
\* the 11 of IF-MIB, and both lists are in the cache
C24_Witness ==
    /\ mib.last.op = "_prepare_oids"
    /\ mib.last.direct = <<SysName("sysDescr")>>
    /\ mib.last.names = <<<<"SNMPv2-MIB">>, <<"IF-MIB">>>>
    /\ Len(mib.last.oids) = 19
    /\ <<"mib_", "oids_", "SNMPv2-MIB">> \in DOMAIN cache
    /\ <<"mib_", "oids_", "IF-MIB">> \in DOMAIN cache

\* get_mib_oids has returned the 7 OIDs of SNMPv2-MIB from the list an
\* earlier call cached
C24_WitnessCached ==
    /\ mib.last.op = "get_mib_oids"
    /\ mib.last.names = <<<<"SNMPv2-MIB">>>>
    /\ mib.last.hit
    /\ Len(mib.last.oids) = 7

\* get_mib_oids has listed the 11 OIDs of IF-MIB again after the list an
\* earlier call cached had expired
C24_WitnessExpired ==
    /\ mib.last.op = "get_mib_oids"
    /\ mib.last.names = <<<<"IF-MIB">>>>
    /\ ~mib.last.hit
    /\ Len(mib.last.oids) = 11
    /\ cache_enabled
    /\ now > cache_ttl
    /\ cache[<<"mib_", "oids_", "IF-MIB">>].timestamp = now

\* get_mib_oids has returned the 11 OIDs of IF-MIB with the cache disabled
C24_WitnessUncached ==
    /\ mib.last.op = "get_mib_oids"
    /\ mib.last.names = <<<<"IF-MIB">>>>
    /\ Len(mib.last.oids) = 11
    /\ ~cache_enabled

\* the base name, without its extension, of each path add_mib_file is
\* called with
LabelOf(path) ==
    CASE path = CiscoMibPath -> <<"CISCO-MIB">>
      [] path = DottedMibPath -> <<"RFC1213", Dot, "MIB">>

\* what a step does to the registry: the two maps stay as they are and the
\* loaded set loses nothing; when the latest call is an add_mib_file that
\* returned True the loaded set is the one before with the file's label
\* added, and when it is one on a path that does not exist it returned
\* False and the loaded set is the one before
AddMibFileStep ==
    /\ mib'.name_oid_cache = mib.name_oid_cache
    /\ mib'.oid_name_cache = mib.oid_name_cache
    /\ mib.loaded_mibs \subseteq mib'.loaded_mibs
    /\ mib'.last.op = "add_mib_file" =>
          /\ mib'.last.on_disk = "file" => mib'.last.ok
          /\ mib'.last.ok =>
                mib'.loaded_mibs = mib.loaded_mibs \cup {LabelOf(mib'.last.arg)}
          /\ mib'.last.on_disk = "missing" =>
                ~mib'.last.ok /\ mib'.loaded_mibs = mib.loaded_mibs
    /\ mib'.last.op # "add_mib_file" => mib'.loaded_mibs = mib.loaded_mibs

C25_WitnessMissing ==
    /\ mib.last.op = "add_mib_file"
    /\ mib.last.on_disk = "missing"
    /\ ~mib.last.ok
    /\ mib.loaded_mibs = {<<"SNMPv2-MIB">>, <<"IF-MIB">>, <<"CISCO-MIB">>}

(***************************************************************************)
(* Properties of clearing and of the flag, checked under SpecKeys.         *)
(***************************************************************************)
\* what a step leaves of the store when the latest call is a clear_cache:
\* with a prefix, the entries before whose key does not start with it, with
\* their value, time and ttl; without one, nothing
ClearStep ==
    cobs'.last.op = "clear" =>
        IF cobs'.last.key # <<>>
        THEN /\ DOMAIN cache' = {k \in DOMAIN cache : ~startswith(k, cobs'.last.key)}
             /\ \A k \in DOMAIN cache' : cache'[k] = cache[k]
        ELSE cache' = <<>>

\* C26: clear_cache with a non-empty prefix deletes the entries whose key
\* starts with the prefix and leaves every other entry with its value, its
\* insertion time and its ttl; clear_cache without a prefix leaves no
\* entry.  The keys a clear deleted all start with its prefix.
C26_CacheClear ==
    /\ [](cobs.last.op = "clear" /\ cobs.last.key # <<>>
           => /\ \A k \in cobs.removed : startswith(k, cobs.last.key)
              /\ \A k \in DOMAIN cache : ~startswith(k, cobs.last.key))
    /\ [][ClearStep]_vars

\* after three sets, clear_cache("mib_") has deleted mib_A and mib_B and
\* left query_C alone in the store
C26_Witness ==
    /\ cobs.last.op = "clear"
    /\ cobs.last.key = <<"mib_">>
    /\ cobs.sets = 3
    /\ cobs.removed = {<<"mib_", "A">>, <<"mib_", "B">>}
    /\ DOMAIN cache = {<<"query_", "C">>}

\* C27: a get_cache call made while config.cache_enabled is false returns
\* None, whatever the store holds under the key, and a set_cache call made
\* while it is false leaves the store as it was.
C27_CacheDisabled ==
    /\ [](cobs.last.op = "get" /\ ~cobs.last.enabled => cobs.last.ret = Absent)
    /\ [][cobs'.sets # cobs.sets /\ ~cache_enabled => cache' = cache]_vars

\* with the flag false, get_cache has returned None for a key that was
\* stored while the flag was true and whose entry, not expired, is still in
\* the store
C27_Witness ==
    /\ ~cache_enabled
    /\ cobs.last.op = "get"
    /\ ~cobs.last.enabled
    /\ cobs.last.ret = Absent
    /\ cobs.last.key \in DOMAIN cache
    /\ ~Expired(cache[cobs.last.key], now)

\* with the flag false, set_cache was called on a store that held an entry
C27_WitnessSet ==
    /\ ~cache_enabled
    /\ cobs.last.op = "set"
    /\ ~cobs.last.enabled
    /\ DOMAIN cache # {}
    /\ cobs.last.key \notin DOMAIN cache

(***************************************************************************)
(* Properties of the sweep and of set_cache, checked under SpecCache.      *)
(***************************************************************************)
\* the step is a get_cache call: the latest call is a get and neither the
\* clock nor the count of set calls moved
GetStep == cobs'.last.op = "get" /\ cobs'.ticks = cobs.ticks /\ cobs'.sets = cobs.sets

\* C28: with the cache enabled, a get_cache call made more than
\* CLEANUP_INTERVAL seconds after the last sweep, whatever its key, leaves
\* no expired entry in the store, records the time of the call as the time
\* of the last sweep, and leaves every entry that has not expired as it
\* was.
C28_SweepOnEachGet ==
    [][ ( /\ GetStep
          /\ cache_enabled
          /\ now - last_cleanup > CLEANUP_INTERVAL )
        => /\ \A k \in DOMAIN cache' : ~Expired(cache'[k], now)
           /\ last_cleanup' = now
           /\ \A k \in DOMAIN cache :
                 ~Expired(cache[k], now) => k \in DOMAIN cache' /\ cache'[k] = cache[k]
      ]_vars

\* C29: with the cache enabled, after set_cache(key, value, ttl) the store
\* holds under the key the value, the time of the call and the ttl asked
\* for: the ttl argument when one was given, 0 included, the configured
\* default when none was.
C29_SetReplaces ==
    (cobs.last.op = "set" /\ cobs.last.enabled)
    => /\ cobs.last.key \in DOMAIN cache
       /\ cobs.last.key \in DOMAIN cobs.given
       /\ cache[cobs.last.key] =
              Entry(cobs.given[cobs.last.key].value, cobs.last.at,
                    AskedTtl(cobs.given[cobs.last.key].ttl))

(***************************************************************************)
(* Properties of the delays of the retry loop, checked under SpecRetry.    *)
(***************************************************************************)
\* the lower ends, in milliseconds, of the rate-limit delays before the
\* first, second and third retry when retry_base_delay is 1
RateLimitFloor == <<1000, 2000, 4000>>

\* C30: the n-th sleep of the loop follows its n-th failed create() call;
\* after a rate-limit error it lasts retry_base_delay * 2^(n-1) seconds and
\* a jitter of at least 0 and less than 1 second, which is within [1,2),
\* [2,3) and [4,5) seconds for n = 1, 2, 3; after a connection error or a
\* 5xx error it lasts retry_base_delay * n seconds; there are at most
\* max_retries sleeps, and none after the failed call on which the loop
\* gives up.
C30_BackoffDelays ==
    /\ Len(rs.delays) <= max_retries
    /\ Len(rs.delays) <= Len(rs.outcomes)
    /\ \A n \in 1..Len(rs.delays) :
          LET out == rs.outcomes[n]
              delay == rs.delays[n]
          IN /\ out.kind \in {"RateLimitError", "APIConnectionError", "APIError"}
             /\ out.kind = "RateLimitError" =>
                   /\ retry_base_delay * (2 ^ (n - 1)) * 1000 <= delay
                   /\ delay < retry_base_delay * (2 ^ (n - 1)) * 1000 + 1000
                   /\ RateLimitFloor[n] <= delay /\ delay < RateLimitFloor[n] + 1000
             /\ out.kind = "APIConnectionError" => delay = retry_base_delay * n * 1000
             /\ out.kind = "APIError" =>
                   /\ 500 <= out.status_code /\ out.status_code < 600
                   /\ delay = retry_base_delay * n * 1000
    /\ (rs.status = "returned" /\ rs.result = Absent /\ rs.attempts > 0) =>
          Len(rs.delays) = rs.attempts - 1

\* the loop has given up on its fourth failed call after sleeping 1 second
\* for a 5xx error, 2 seconds for a connection error and 4.999 seconds for
\* a rate-limit error
C30_Witness ==
    /\ rs.status = "returned"
    /\ rs.result = Absent
    /\ rs.attempts = max_retries + 1
    /\ rs.outcomes[1].kind = "APIError"
    /\ rs.outcomes[2].kind = "APIConnectionError"
    /\ rs.outcomes[3].kind = "RateLimitError"
    /\ rs.delays = <<1000, 2000, 4999>>

(***************************************************************************)
(* Properties of the result keys, of the BULK fields and of the values,    *)
(* checked under SpecCommands.                                             *)
(***************************************************************************)
\* the passes of the call that went through without an exception
OkPasses == {n \in 1..Len(ex.trace) : ex.trace[n].what = "ok"}

\* C31: result keys use the registry translation for every command: in GET
\* each successful value is keyed by the translated name of its OID, or by
\* the numeric OID when the registry has none; in GETNEXT, WALK and BULK
\* each returned pair whose OID the registry translates, exactly or by a
\* prefix, is keyed by that name and not by the numeric OID.
C31_TranslatedKeys ==
    \A n \in OkPasses :
        LET pass == ex.trace[n]
        IN  IF ex.command = "GET"
            THEN Or(translate_oid(pass.oid), pass.oid) \in DOMAIN ex.result
            ELSE \A k \in 1..Len(pass.reply.pairs) :
                    LET returned == pass.reply.pairs[k].oid
                    IN translate_oid(returned) # None =>
                          /\ translate_oid(returned) \in DOMAIN ex.result
                          /\ returned \notin DOMAIN ex.result

\* a BULK field as the query gives it, `absent` standing in when it is left out
GivenOr(field, absent) == IF field = <<>> THEN absent ELSE field[1]

\* C32: BULK issues one bulk-get per prepared OID, with the query's
\* nonRepeaters and maxRepetitions passed through exactly as given whenever
\* they are present in the query, an explicit 0 included, and with 0 and 10
\* only when the field is absent.
C32_BulkFields ==
    (ex.command = "BULK" /\ ex.pc \in {"running", "done"}) =>
        LET operation == ex.query[1].operation
        IN  /\ Len(ex.calls) <= Len(ex.oids)
            /\ \A n \in 1..Len(ex.calls) :
                  /\ ex.calls[n].op = "bulkget"
                  /\ ex.calls[n].oid = ex.oids[n]
                  /\ ex.calls[n].non_repeaters = GivenOr(operation.non_repeaters, 0)
                  /\ ex.calls[n].max_repetitions = GivenOr(operation.max_repetitions, 10)
            /\ (ex.pc = "done" /\ ErrorKey \notin DOMAIN ex.result) =>
                  Len(ex.calls) = Len(ex.oids)

\* what the normalization is to make of each value the device hands over:
\* b"Linux box" is the text "Linux box", b"\xff\xfe" is not UTF-8 and is
\* rendered as "fffe", b"\xc3\xa9" is the one character U+00E9, 42, 1.5,
\* True and "up" stay as they are, the object becomes its string form
Normalized(value) ==
    CASE value = VBytes(LinuxBox) -> VStr("Linux box")
      [] value = VBytes(<<255, 254>>) -> VStr("fffe")
      [] value = VBytes(<<195, 169>>) -> VStr("<U+233>")
      [] value = VObj("Gauge32(7)") -> VStr("Gauge32(7)")
      [] OTHER -> value

\* the (key, value) pairs the passes of the call have filed so far, the
\* value as the device delivered it
Delivered ==
    UNION {
        LET pass == ex.trace[n]
        IN  IF ex.command = "GET"
            THEN IF pass.what = "ok"
                 THEN {[key |-> Or(translate_oid(pass.oid), pass.oid),
                        value |-> pass.reply.pairs[1].value]}
                 ELSE {}
            ELSE {[key |-> ReturnedKey(pass.reply.pairs[k].oid),
                   value |-> pass.reply.pairs[k].value] :
                      k \in 1..Len(pass.reply.pairs)}
        : n \in 1..Len(ex.trace)}

\* the texts the handlers of the four commands file for a failed pass, and
\* the one execute_query returns when the client cannot be built
FailureTexts ==
    {VStr("Error: generic failure"), VStr("Error: timed out"), VStr("generic failure"),
     VStr("Failed to create SNMP client: invalid address")}

\* C33: every value is normalized before it enters a result map, in all
\* four commands: bytes become their UTF-8 text when valid and their
\* hexadecimal rendering otherwise, an integer, float, boolean or text is
\* unchanged, anything else becomes its string form; so every value of a
\* result map is a text, a number or a boolean, and normalizing a
\* normalized value returns it unchanged.
C33_ValueNormalization ==
    /\ \A key \in DOMAIN ex.result :
          /\ ex.result[key].type \in {"str", "int", "float", "bool"}
          /\ \/ ex.result[key] \in FailureTexts
             \/ \E d \in Delivered : d.key = key /\ ex.result[key] = Normalized(d.value)
          /\ format_value(ex.result[key]) = ex.result[key]
    /\ \A d \in Delivered :
          /\ d.key \in DOMAIN ex.result
          /\ format_value(d.value) = Normalized(d.value)
          /\ format_value(format_value(d.value)) = format_value(d.value)

\* a WALK over two OIDs has returned: the first walk yielded bytes that are
\* not UTF-8, the second an object of the library, and the result holds
\* "fffe" and the object's string form
C33_Witness ==
    /\ ex.pc = "done"
    /\ ex.command = "WALK"
    /\ Len(ex.trace) = 2
    /\ ex.trace[1].what = "ok" /\ ex.trace[2].what = "ok"
    /\ \E d \in Delivered : d.value = VBytes(<<255, 254>>) /\ ex.result[d.key] = VStr("fffe")
    /\ \E d \in Delivered : d.value = VObj("Gauge32(7)") /\ ex.result[d.key] = VStr("Gauge32(7)")

(***************************************************************************)
(* Properties of the two pipelines, checked under SpecPipelines.           *)
(***************************************************************************)
\* the request whose pipeline has just returned after its executor had
\* returned a result map
Executed ==
    IF plog.last # <<>> /\ plog.last[1].executions = 1 /\ plog.last[1].ex.pc = "done"
       /\ plog.last[1].body # <<>>
    THEN {plog.last[1]} ELSE {}

\* the /query handler sets the status code of its response, the command
\* line has none
ThroughApi(f) == f.status_code # 0

TopLevelError(f) == ErrorKey \in DOMAIN f.ex.result

\* the response is a StructuredResponse with these four fields
IsResponse(body, raw_data, summary, query, error) ==
    /\ DOMAIN body = {"raw_data", "summary", "query", "error"}
    /\ body.raw_data = raw_data
    /\ body.summary = summary
    /\ body.query = query
    /\ body.error = error

\* the summarizer is called at most once for a request, only after the
\* executor has returned a result map without a top-level "error", and with
\* that map and the original text
SummarizerCalls ==
    \A r \in 1..MaxInFlight :
        /\ req[r].summaries <= 1
        /\ req[r].summaries = 1 =>
              /\ req[r].ex.pc = "done"
              /\ ~TopLevelError(req[r])
              /\ req[r].pc \in {"summarize_sleep", "cli_summarize_sleep"} =>
                    /\ req[r].rs.caller = "format_response"
                    /\ req[r].rs.args.snmp_response = req[r].ex.result
                    /\ req[r].rs.args.original_query = req[r].query

\* C34 as stated: when the executor's result map holds a top-level "error",
\* the pipeline never calls the summarizer for that request, and the final
\* response has error set to that message, the summary "Error: " followed
\* by it, and rawData equal to the result map; when the result holds no
\* top-level "error", the summarizer is called exactly once with the result
\* map and the original text.
C34_AsStated ==
    /\ SummarizerCalls
    /\ \A f \in Executed :
          IF TopLevelError(f)
          THEN /\ f.summaries = 0
               /\ IsResponse(f.body[1], f.ex.result,
                             "Error: " \o f.ex.result[ErrorKey].str, f.query,
                             Some(f.ex.result[ErrorKey].str))
          ELSE /\ f.summaries = 1
               /\ DOMAIN f.body[1] = {"raw_data", "summary", "query", "error"}
               /\ f.body[1].raw_data = f.ex.result
               /\ f.body[1].query = f.query

\* C34 as amended: the same, the shape of the final response on a top-level
\* "error" being that of the /query handler; through the command line the
\* final result is the map {"error": message} alone, without summary and
\* without rawData.
C34_NoSummaryOnError ==
    /\ SummarizerCalls
    /\ \A f \in Executed :
          IF TopLevelError(f)
          THEN /\ f.summaries = 0
               /\ IF ThroughApi(f)
                  THEN IsResponse(f.body[1], f.ex.result,
                                  "Error: " \o f.ex.result[ErrorKey].str, f.query,
                                  Some(f.ex.result[ErrorKey].str))
                  ELSE f.body[1] = ErrorOnly(f.ex.result[ErrorKey].str)
          ELSE /\ f.summaries = 1
               /\ DOMAIN f.body[1] = {"raw_data", "summary", "query", "error"}
               /\ f.body[1].raw_data = f.ex.result
               /\ f.body[1].query = f.query

\* the /query handler has answered a request whose executor refused the
\* SNMP version: no summarizer call, and the response carries the error
C34_Witness ==
    \E f \in Executed :
        /\ ThroughApi(f)
        /\ TopLevelError(f)
        /\ f.summaries = 0
        /\ f.body[1].summary = "Error: Only SNMP versions 1 and 2c are currently supported"

\* the command line has returned {"error": ...} for such a request
C34_WitnessCli ==
    \E f \in Executed :
        /\ ~ThroughApi(f)
        /\ TopLevelError(f)
        /\ f.body[1] = ErrorOnly("Only SNMP versions 1 and 2c are currently supported")

\* a request without a top-level error has been summarized once, and the
\* summary is the text of the model
C34_WitnessSummarized ==
    \E f \in Executed :
        /\ ~TopLevelError(f)
        /\ f.summaries = 1
        /\ f.body[1].summary = "It is a Linux box."

(***************************************************************************)
(* Properties of the registry's two directions together, checked under     *)
(* SpecMib.                                                                *)
(***************************************************************************)
\* the entries of oid_name_cache whose OID is a dotted-decimal prefix of oid
DottedPrefixEntries(oid) ==
    {i \in 1..Len(mib.oid_name_cache) :
        LET known_oid == mib.oid_name_cache[i][1]
        IN /\ Len(known_oid) < Len(oid)
           /\ SubSeq(oid, 1, Len(known_oid)) = known_oid
           /\ oid[Len(known_oid) + 1] = Dot}

\* what translate_oid returns when the loop over the registry stops at entry i
TranslatedBy(i, oid) ==
    SplitDotFirst(mib.oid_name_cache[i][2]) \o SliceFrom(oid, Len(mib.oid_name_cache[i][1]))

\* C35: translate is deterministic: in every reachable registry state at
\* most one registered OID is a dotted-decimal prefix of any queried OID
\* (no registered OID is a dotted prefix of another, and no operation adds
\* OIDs), so translate_oid(oid) returns the same result whatever order the
\* registry is iterated in.
C35_TranslateDeterministic ==
    /\ \A i, j \in 1..Len(mib.oid_name_cache) :
          i # j => /\ mib.oid_name_cache[i][1] # mib.oid_name_cache[j][1]
                   /\ j \notin DottedPrefixEntries(mib.oid_name_cache[i][1])
    /\ Len(mib.oid_name_cache) = Len(oid_name_cache)
    /\ \A oid \in OidArgs : Cardinality(DottedPrefixEntries(oid)) <= 1
    /\ mib.last.op = "translate_oid" =>
          LET oid == mib.last.arg
          IN  IF DictHas(mib.oid_name_cache, oid)
              THEN mib.last.ret = DictGet(mib.oid_name_cache, oid)
              ELSE IF DottedPrefixEntries(oid) = {} THEN mib.last.ret = None
              ELSE \A i \in DottedPrefixEntries(oid) : mib.last.ret = TranslatedBy(i, oid)

\* after a MIB file was added, translate_oid("1.3.6.1.2.1.2.2.1.1.0") has
\* returned IF-MIB::ifIndex.0: ifIndex is the one registered OID that is a
\* dotted prefix of it, though ifInOctets and ifOutOctets begin with the
\* same characters
C35_Witness ==
    /\ Cardinality(mib.loaded_mibs) = 3
    /\ mib.last.op = "translate_oid"
    /\ mib.last.arg = IfOid("1") \o <<Dot, "0">>
    /\ DottedPrefixEntries(mib.last.arg) # {}
    /\ mib.last.ret = IfName("ifIndex") \o <<Dot, "0">>

\* translate_oid("1.3.6.1.2.1.2.2.1.100") has returned None: no registered
\* OID is a dotted prefix of it
C35_WitnessNone ==
    /\ mib.last.op = "translate_oid"
    /\ mib.last.arg = Dotted(<<"1", "3", "6", "1", "2", "1", "2", "2", "1", "100">>)
    /\ mib.last.ret = None

\* C39: translate-then-resolve round trip: for every OID q for which
\* translate_oid(q) returns a name, by an exact match or by a prefix match,
\* resolve_oid(translate_oid(q)) = q.
C39_TranslateResolve ==
    (mib.last.op = "translate_oid" /\ mib.last.ret # None) =>
        resolve_oid(mib.last.ret) = mib.last.arg

(***************************************************************************)
(* The cache functions line by line (app/utils/cache.py), run by the       *)
(* handlers of the event loop.  A handler is a task: a list of cache calls *)
(* still to make, each followed by an await of the handler, by the next    *)
(* call at once, or by the handler's return.  A call in progress stands at *)
(* a line of its function and holds the function's locals.                 *)
(***************************************************************************)
\* the tasks at once, the handlers started in one behaviour and the steps
\* of the clock
MaxTasks == 2
MaxStarts == 3
MaxTaskTicks == 2

Call(op, key, value, ttl, then) ==
    [op |-> op, key |-> key, value |-> value, ttl |-> ttl, then |-> then]

IdleTask ==
    [pc |-> "idle", todo |-> <<>>, call |-> <<>>, entry |-> <<>>, keys |-> <<>>,
     began |-> <<>>]

QueryKey == <<"query_", "4781">>
MibKey == <<"mib_", "oids_", "IF-MIB">>

\* process_query of app/api/main.py: get_cache (line 56), the translator
\* awaited, get_mib_oids inside _prepare_oids (get_cache and, on a miss,
\* set_cache with nothing awaited between them), the agent and the
\* summarizer awaited, set_cache (line 88)
QueryHandler ==
    <<Call("get", QueryKey, "", <<>>, "await"),
      Call("get", MibKey, "", <<>>, "set on a miss"),
      Call("set", MibKey, "oids", <<>>, "await"),
      Call("set", QueryKey, "response", <<>>, "return")>>

\* clear_application_cache and upload_mib of app/api/main.py
ClearHandler(prefix) == <<Call("clear", prefix, "", <<>>, "return")>>

Handlers == {QueryHandler} \cup {ClearHandler(prefix) : prefix \in Prefixes}

RECURSIVE SeqOf(_)
\* the elements of a set of keys, one after the other
SeqOf(S) == IF S = {} THEN <<>> ELSE LET k == CHOOSE k \in S : TRUE IN <<k>> \o SeqOf(S \ {k})

\* the first line of the function a call enters
FirstLine(call) ==
    IF call.op = "get" THEN "get_24" ELSE IF call.op = "set" THEN "set_53" ELSE "clear_69"

\* What the line the task stands at does: the task after it, the store and
\* _last_cleanup, and whether the function has returned (with ret) or an
\* exception has left it.
Line(task, c, lc, t, enabled) ==
    LET key == task.call[1].key
        At(pc) == [task |-> [task EXCEPT !.pc = pc], cache |-> c, last_cleanup |-> lc,
                   ends |-> "", ret |-> Absent]
        Return(store, swept, ret) ==
            [task |-> task, cache |-> store, last_cleanup |-> swept,
             ends |-> "return", ret |-> ret]
        Raise == [task |-> [task EXCEPT !.pc = "raised"], cache |-> c, last_cleanup |-> lc,
                  ends |-> "raise", ret |-> Absent]
        \* del _cache[k] on the head of the keys collected
        DelNext ==
            IF Head(task.keys) \notin DOMAIN c THEN Raise
            ELSE [At(task.pc) EXCEPT !.task.keys = Tail(@),
                                     !.cache = Without(c, {Head(task.keys)})]
    IN
    CASE task.pc = "get_24" -> IF ~enabled THEN Return(c, lc, Absent) ELSE At("get_27")
      [] task.pc = "get_27" -> IF key \notin DOMAIN c THEN Return(c, lc, Absent)
                               ELSE At("get_30")
      [] task.pc = "get_30" -> IF key \notin DOMAIN c THEN Raise
                               ELSE [At("get_33") EXCEPT !.task.entry = <<c[key]>>]
      [] task.pc = "get_33" -> IF Expired(task.entry[1], t) THEN At("get_35")
                               ELSE At("sweep_90")
      [] task.pc = "get_35" -> IF key \notin DOMAIN c THEN Raise
                               ELSE Return(Without(c, {key}), lc, Absent)
      [] task.pc = "sweep_90" -> IF t - lc > CLEANUP_INTERVAL THEN At("sweep_93")
                                 ELSE Return(c, lc, Some(task.entry[1].value))
      [] task.pc = "sweep_93" ->
            [At("sweep_98") EXCEPT
                !.task.keys = SeqOf({k \in DOMAIN c : Expired(c[k], t)})]
      [] task.pc = "sweep_98" -> IF task.keys = <<>> THEN At("sweep_102") ELSE DelNext
      [] task.pc = "sweep_102" -> Return(c, t, Some(task.entry[1].value))
      [] task.pc = "set_53" -> IF ~enabled THEN Return(c, lc, Absent) ELSE At("set_57")
      [] task.pc = "set_57" ->
            Return(With(c, key, Entry(task.call[1].value, t, TtlOrDefault(task.call[1].ttl))),
                   lc, Absent)
      [] task.pc = "clear_69" -> IF key # <<>> THEN At("clear_71") ELSE At("clear_76")
      [] task.pc = "clear_71" ->
            [At("clear_72") EXCEPT
                !.task.keys = SeqOf({k \in DOMAIN c : startswith(k, key)})]
      [] task.pc = "clear_72" -> IF task.keys = <<>> THEN Return(c, lc, Absent) ELSE DelNext
      [] task.pc = "clear_76" -> Return(<<>>, lc, Absent)

\* the task enters the next call of its list, the store being c
Enter(task, c, lc, t, enabled) ==
    [task EXCEPT !.pc = FirstLine(Head(task.todo)),
                 !.call = <<Head(task.todo)>>,
                 !.todo = Tail(task.todo),
                 !.entry = <<>>, !.keys = <<>>,
                 !.began = <<[cache |-> c, last_cleanup |-> lc, now |-> t,
                              enabled |-> enabled]>>]

\* `if cached_oids:` of get_mib_oids, on the strings of the model
Truthy(ret) == ret # Absent /\ ret[1] # ""

\* the call has returned to the handler, which goes on to what follows it
Follow(task, ret, c, lc, t, enabled) ==
    LET then == task.call[1].then
        rest == [task EXCEPT !.call = <<>>, !.entry = <<>>, !.keys = <<>>, !.began = <<>>]
    IN  IF then = "return" THEN IdleTask
        ELSE IF then = "await" THEN [rest EXCEPT !.pc = "await"]
        ELSE IF Truthy(ret) THEN [rest EXCEPT !.pc = "await", !.todo = Tail(@)]
        ELSE Enter(rest, c, lc, t, enabled)

\* tasks switched at any line, as threads are
Yields_Anywhere(task) == TRUE

\* whether the event loop may run another task now: only when the task
\* stands at an await of its handler, has not started, or is over
Yields(task) == task.pc \in {"idle", "await", "raised"}

\* for the properties: the handlers started, the clock steps, and the call
\* that has just returned with the store it began with and the one it left
NoTaskLog == [started |-> 0, ticks |-> 0, last |-> <<>>]

TasksInit ==
    /\ req = [t \in 1..MaxTasks |-> IdleTask]
    /\ plog = NoTaskLog
    /\ cache = <<>>
    /\ last_cleanup = 0
    /\ now = 0
    /\ cache_enabled \in BOOLEAN
    /\ cobs = NoObservations
    /\ rs = [RetryFrame EXCEPT !.status = "idle"]
    /\ ex = IdleFrame
    /\ mib = MIBService

Scheduled(t) == \A u \in 1..MaxTasks : u # t => Yields(req[u])

\* a request arrives: its handler runs up to the first line of its first call
TaskStart(t) ==
    /\ Scheduled(t)
    /\ req[t].pc = "idle"
    /\ plog.started < MaxStarts
    /\ \E handler \in Handlers :
          req' = [req EXCEPT ![t] =
                     Enter([IdleTask EXCEPT !.todo = handler], cache, last_cleanup, now,
                           cache_enabled)]
    /\ plog' = [plog EXCEPT !.started = @ + 1, !.last = <<>>]
    /\ UNCHANGED <<rs, ex, cache, last_cleanup, now, cache_enabled, cobs, mib>>

\* what the handler awaited is there: it runs up to the first line of its
\* next call
TaskResume(t) ==
    /\ Scheduled(t)
    /\ req[t].pc = "await"
    /\ req' = [req EXCEPT ![t] = Enter(@, cache, last_cleanup, now, cache_enabled)]
    /\ plog' = [plog EXCEPT !.last = <<>>]
    /\ UNCHANGED <<rs, ex, cache, last_cleanup, now, cache_enabled, cobs, mib>>

\* the task runs the line it stands at
TaskLine(t) ==
    /\ Scheduled(t)
    /\ req[t].pc \notin {"idle", "await", "raised"}
    /\ LET l == Line(req[t], cache, last_cleanup, now, cache_enabled)
       IN /\ cache' = l.cache
          /\ last_cleanup' = l.last_cleanup
          /\ req' = [req EXCEPT ![t] =
                        IF l.ends = "return"
                        THEN Follow(l.task, l.ret, l.cache, l.last_cleanup, now,
                                    cache_enabled)
                        ELSE l.task]
          /\ plog' = [plog EXCEPT !.last =
                         IF l.ends = "return"
                         THEN <<[task |-> t, call |-> req[t].call[1],
                                 began |-> req[t].began[1], ret |-> l.ret,
                                 cache |-> l.cache, last_cleanup |-> l.last_cleanup]>>
                         ELSE <<>>]
    /\ UNCHANGED <<rs, ex, now, cache_enabled, cobs, mib>>

\* the clock advances while every task waits
TaskTick ==
    /\ \A t \in 1..MaxTasks : Yields(req[t])
    /\ plog.ticks < MaxTaskTicks
    /\ \E d \in {CLEANUP_INTERVAL + 1, cache_ttl + 1} : now' = now + d
    /\ plog' = [plog EXCEPT !.ticks = @ + 1, !.last = <<>>]
    /\ UNCHANGED <<rs, ex, req, cache, last_cleanup, cache_enabled, cobs, mib>>

TasksNext ==
    \/ \E t \in 1..MaxTasks : TaskStart(t)
    \/ \E t \in 1..MaxTasks : TaskResume(t)
    \/ \E t \in 1..MaxTasks : TaskLine(t)
    \/ TaskTick

SpecTasks == TasksInit /\ [][TasksNext]_vars

(***************************************************************************)
(* Properties of the cache functions under the event loop, checked under   *)
(* SpecTasks.                                                              *)
(***************************************************************************)
\* the tasks that stand inside a cache function
Inside == {t \in 1..MaxTasks : req[t].pc \notin {"idle", "await", "raised"}}

\* the handlers in flight: started and not over
InFlight == {t \in 1..MaxTasks : req[t].pc \notin {"idle", "raised"}}

\* what the call that has just returned leaves when it runs on the store it
\* began with, nothing else running in between: what it returns, the store
\* and _last_cleanup
Alone(o) ==
    LET b == o.began
    IN  IF o.call.op = "get"
        THEN get_cache(b.cache, b.last_cleanup, b.now, b.enabled, o.call.key)
        ELSE IF o.call.op = "set"
        THEN [ret |-> Absent,
              cache |-> set_cache(b.cache, b.now, b.enabled, o.call.key, o.call.value,
                                  o.call.ttl),
              last_cleanup |-> b.last_cleanup]
        ELSE [ret |-> Absent, cache |-> clear_cache(b.cache, o.call.key),
              last_cleanup |-> b.last_cleanup]

\* C36: under the single-threaded cooperative scheduler each cache
\* operation (get with its expiry eviction and sweep, set, clear) runs to
\* completion without a suspension point: whatever the interleaving of the
\* requests in flight, at most one task stands inside a cache function, no
\* `del` meets a key another request has removed (no call is left by a
\* KeyError), every entry of the store is whole, and a call that returns
\* has done to the store exactly what it does running alone on the store
\* it found, so that no completed update of another request is lost.
C36_AtomicCacheOps ==
    /\ Cardinality(Inside) <= 1
    /\ \A t \in 1..MaxTasks : req[t].pc # "raised"
    /\ \A k \in DOMAIN cache : DOMAIN cache[k] = {"value", "timestamp", "ttl"}
    /\ \A t \in Inside : \A u \in 1..MaxTasks : u # t => req[u].began = <<>>
    /\ plog.last # <<>> =>
          LET o == plog.last[1]
          IN /\ o.ret = Alone(o).ret
             /\ o.cache = Alone(o).cache
             /\ o.last_cleanup = Alone(o).last_cleanup
             /\ cache = o.cache

\* two requests are in flight; the get_cache of one has just returned a
\* value after its sweep evicted an expired entry that the other had stored
C36_Witness ==
    /\ Cardinality(InFlight) = 2
    /\ plog.last # <<>>
    /\ plog.last[1].call.op = "get"
    /\ plog.last[1].ret # Absent
    /\ plog.last[1].last_cleanup = now
    /\ MibKey \in DOMAIN plog.last[1].began.cache
    /\ MibKey \notin DOMAIN cache

\* a clear_cache("mib_") has returned while a /query handler was waiting
\* between its calls, and has removed the list that handler had stored
C36_WitnessClear ==
    /\ Cardinality(InFlight) = 1
    /\ \E t \in InFlight : req[t].pc = "await" /\ Len(req[t].todo) = 1
    /\ plog.last # <<>>
    /\ plog.last[1].call = ClearHandler(<<"mib_">>)[1]
    /\ MibKey \in DOMAIN plog.last[1].began.cache
    /\ MibKey \notin DOMAIN cache

(***************************************************************************)
(* Properties of requests in flight together and of what the response      *)
(* cache holds, checked under Spec.                                        *)
(***************************************************************************)
\* the handler has returned a response of its own making that it was to
\* store: skip_cache false and no error in the response
StoredItsOwn(f) ==
    /\ f.pc = "done"
    /\ f.status_code = 200
    /\ ~f.cached
    /\ ~f.skip_cache
    /\ Falsy(f.body[1].error)

\* C37: the request-level check-then-insert is not atomic: two /query
\* requests for the same text in flight at the same time both miss the
\* cache and both run the translator and the executor (every request in
\* flight runs its own, whatever else is in flight), and the cache entry
\* that remains is the response stored by the request that finished last.
C37_NoCoalescing ==
    /\ \A r \in 1..MaxInFlight :
          req[r].pc # "idle" =>
              /\ ~req[r].cached
              /\ req[r].translations = 1
              /\ req[r].pc \in {"snmp", "summarize_sleep"} => req[r].executions = 1
    /\ \A n \in Seen : LET f == Request(n) IN
          (n > MaxInFlight /\ StoredItsOwn(f) /\ cache_enabled) =>
              /\ cache_key(f.query) \in DOMAIN cache
              /\ cache[cache_key(f.query)].value = f.body[1]
              /\ cache[cache_key(f.query)].timestamp = now

\* a request has just stored its response while another request for the
\* same text, which missed the cache as well, has run its own translator
\* and executor and waits for the agent
C37_Witness ==
    /\ plog.last # <<>>
    /\ StoredItsOwn(plog.last[1])
    /\ plog.last[1].translations = 1 /\ plog.last[1].executions = 1
    /\ \E r \in 1..MaxInFlight :
          /\ req[r].pc = "snmp"
          /\ req[r].query = plog.last[1].query
          /\ ~req[r].skip_cache
          /\ req[r].translations = 1 /\ req[r].executions = 1
    /\ cache[cache_key(plog.last[1].query)].value = plog.last[1].body[1]

\* two requests that both found nothing stored have each stored a response,
\* and the store holds that of the one that finished last, which differs
\* from the first
C37_WitnessLastWins ==
    /\ now = 0
    /\ plog.last # <<>>
    /\ StoredItsOwn(plog.last[1])
    /\ plog.last[1].promised = <<>>
    /\ Len(plog.live[plog.last[1].query]) = 2
    /\ plog.live[plog.last[1].query][1].response # plog.last[1].body[1]
    /\ cache[cache_key(plog.last[1].query)].value = plog.last[1].body[1]


\* the step is one of a request made with skip_cache true: its handler has
\* moved on, or has just returned
SkipCacheStep ==
    \/ \E r \in 1..MaxInFlight :
          req'[r] # req[r] /\ req'[r].pc # "idle" /\ req'[r].skip_cache
    \/ plog'.last # <<>> /\ plog'.last[1].skip_cache

\* the entries of the store that process_query has written
QueryKeys == {k \in DOMAIN cache : startswith(k, <<"query_">>)}

C38_WitnessSkip ==
    /\ plog.last # <<>>
    /\ plog.last[1].skip_cache
    /\ plog.last[1].status_code = 200
    /\ plog.last[1].translations = 1
    /\ plog.last[1].body[1].error = Absent
    /\ cache_key(plog.last[1].query) \in DOMAIN cache
    /\ cache[cache_key(plog.last[1].query)].value # plog.last[1].body[1]

\* the store holds a response whose raw_data carries the error of one OID
\* and whose summary is the fallback text
C38_WitnessInline ==
    \E k \in QueryKeys :
        /\ cache[k].value.error = Absent
        /\ cache[k].value.summary \in FallbackSummaries
        /\ \E oid \in DOMAIN cache[k].value.raw_data :
              cache[k].value.raw_data[oid] = VStr("Error: timed out")


(***************************************************************************)
(* SpecOids: get_mib_oids called between the other uses of the cache: the  *)
(* responses process_query stores, /clear-cache, /mibs/upload, the clock   *)
(* passing the sweep interval and the TTL, and config.cache_enabled        *)
(* assigned.                                                               *)
(***************************************************************************)
\* the steps of the clock in one behaviour
MaxOidTicks == 2

\* upload_mib of app/api/main.py: add_mib_file and, when it returns True,
\* clear_cache(key_prefix="mib_")
upload_mib ==
    /\ \E on_disk \in {"file", "missing"} :
          LET a == add_mib_file(mib, CiscoMibPath, on_disk)
          IN /\ mib' = [a.mib EXCEPT !.last = [NoCall EXCEPT !.op = "upload_mib",
                                                            !.ok = a.ret]]
             /\ cache' = IF a.ret THEN clear_cache(cache, <<"mib_">>) ELSE cache
    /\ UNCHANGED <<rs, ex, last_cleanup, now, cache_enabled, cobs, req, plog>>

\* POST /clear-cache with one of the prefixes, or with none
OidsClear ==
    /\ \E key_prefix \in Prefixes : cache' = clear_cache(cache, key_prefix)
    /\ UNCHANGED <<rs, ex, last_cleanup, now, cache_enabled, cobs, req, plog, mib>>

\* process_query stores a response under the key of its text
OidsStoreResponse ==
    /\ cache' = set_cache(cache, now, cache_enabled, cache_key("describe 10.0.0.1"),
                          SNMPResponse(<<>>, "It is a Linux box.", "describe 10.0.0.1",
                                       Absent),
                          <<>>)
    /\ UNCHANGED <<rs, ex, last_cleanup, now, cache_enabled, cobs, req, plog, mib>>

\* the clock passes the sweep interval, or the TTL of a cached list
OidsTick == TickOf({CLEANUP_INTERVAL + 1, cache_ttl + 1}, MaxOidTicks)

OidsNext ==
    \/ MibGetOids
    \/ upload_mib
    \/ OidsClear
    \/ OidsStoreResponse
    \/ OidsTick
    \/ SetCacheEnabled

SpecOids == MibInit /\ [][OidsNext]_vars

(***************************************************************************)
(* Properties of the cached OID lists, checked under SpecOids.             *)
(***************************************************************************)
RECURSIVE RegistryScan(_, _)
\* the scan of name_oid_cache that get_mib_oids makes on a miss, from entry
\* i on: the OIDs of the names that begin with mib_name and "::", in the
\* order of the dict
RegistryScan(mib_name, i) ==
    IF i > Len(mib.name_oid_cache) THEN <<>>
    ELSE LET entry == mib.name_oid_cache[i]
         IN (IF startswith(entry[1], mib_name \o <<"::">>) THEN <<entry[2]>> ELSE <<>>)
            \o RegistryScan(mib_name, i + 1)

\* C40: the cache of get_mib_oids is transparent: whatever set_cache,
\* clear_cache with and without a prefix, expiry, sweeps, assignments of
\* config.cache_enabled and add_mib_file calls came before, the list that
\* get_mib_oids(mib_name) returns is the list a scan of the registry gives
\* at that moment, from the cache or not; and a list in the cache under
\* mib_oids_<name> is that scan as well.
C40_TransparentOidCache ==
    /\ mib.last.op = "get_mib_oids" =>
          mib.last.oids = RegistryScan(mib.last.names[1], 1)
    /\ \A mib_name \in MibNameArgs :
          <<"mib_", "oids_">> \o mib_name \in DOMAIN cache =>
              cache[<<"mib_", "oids_">> \o mib_name].value = RegistryScan(mib_name, 1)

\* get_mib_oids has returned the 11 OIDs of IF-MIB from the cache, where
\* the list was stored again after the clock had passed the TTL of an
\* earlier one, and the list of SNMPv2-MIB and a response are in the cache
\* too
C40_Witness ==
    /\ mib.last.op = "get_mib_oids"
    /\ mib.last.names = <<<<"IF-MIB">>>>
    /\ mib.last.hit
    /\ Len(mib.last.oids) = 11
    /\ now > cache_ttl
    /\ cache_enabled
    /\ <<"mib_", "oids_", "SNMPv2-MIB">> \in DOMAIN cache
    /\ cache_key("describe 10.0.0.1") \in DOMAIN cache

\* with the cache disabled, get_mib_oids has returned the 7 OIDs of
\* SNMPv2-MIB from a scan while the list stored before the flag was cleared
\* is still in the cache
C40_WitnessDisabled ==
    /\ mib.last.op = "get_mib_oids"
    /\ mib.last.names = <<<<"SNMPv2-MIB">>>>
    /\ ~mib.last.hit
    /\ Len(mib.last.oids) = 7
    /\ ~cache_enabled
    /\ <<"mib_", "oids_", "SNMPv2-MIB">> \in DOMAIN cache

====
